---- MODULE Spec2Model ----
(***************************************************************************)
(* A model of the SiteClone server (src/server.js): the Project Store, the *)
(* Site Publisher, the Generation Pipeline and the Scrape Orchestrator.    *)
(*                                                                         *)
(* JavaScript objects are functions from field names to values: a field is *)
(* present iff its name is in the DOMAIN, and the object spread            *)
(* {...a, ...b} is Merge(a, b).  Strings are sequences of one-character    *)
(* strings, so that trim, replace and substring search are computed.       *)
(* Each subsystem has its own specification over the shared variables.     *)
(***************************************************************************)
EXTENDS Integers, Sequences, FiniteSets, TLC

VARIABLES
    now,                \* the clock read by new Date()
    \* ---- Project Store (server.js:109, 606-786)
    generatedProjects,  \* the Map's entries: key -> stored value
    projectKeys,        \* the Map's keys in insertion order
    projResp,           \* the last response of a /api/projects endpoint
    submitted,          \* history: projectId -> the bundle the save was given
    deleted,            \* history: the projectIds a delete has removed
    \* ---- Site Publisher (server.js:1687-1831)
    htmlFile,           \* the siteIds whose hosted-sites/<id>/index.html exists
    metaFile,           \* siteId -> the content of hosted-sites/<id>/meta.json
    view,               \* viewer -> the GET /hosted/:siteId request it makes
    \* ---- Generation Pipeline (server.js:305-423, 491-580, 1284-1574)
    recreate,           \* the POST /api/recreate request in flight
    outreach,           \* the POST /api/outreach request in flight
    \* ---- Scrape Orchestrator (server.js:112-114, 199-202, 789-1094)
    firecrawl,          \* the scraping-provider client, or null
    scrape,             \* the scrape in flight: the position in its code and its locals
    \* ---- Configuration and LLM gateway (server.js:76-87, 126-178, 582-602, 1908-2029)
    env,                \* process.env: GOOGLE_API_KEY and NODE_ENV
    apiConfig,          \* the apiConfig object
    llmCall,            \* the callLLM invocation in flight
    admin               \* the config or export request in flight, and its response

projVars == <<generatedProjects, projectKeys, projResp, submitted, deleted>>

siteVars == <<htmlFile, metaFile, view>>

genVars == <<recreate, outreach>>

scrapeVars == <<firecrawl, scrape>>

cfgVars == <<env, apiConfig, llmCall, admin>>

vars == <<now, projVars, siteVars, genVars, scrapeVars, cfgVars>>

\* What the endpoints of one subsystem leave alone.
notProjVars == <<siteVars, genVars, scrapeVars, cfgVars>>

notSiteVars == <<projVars, genVars, scrapeVars, cfgVars>>

notGenVars == <<projVars, siteVars, scrapeVars, cfgVars>>

notScrapeVars == <<projVars, siteVars, genVars, cfgVars>>

notClockVars == <<projVars, siteVars, genVars, scrapeVars, cfgVars>>

----------------------------------------------------------------------------
(* Objects and strings *)

EmptyObj == [k \in {} |-> 0]

Has(o, k) == k \in DOMAIN o

\* {...a, ...b}
Merge(a, b) == [k \in DOMAIN a \cup DOMAIN b |-> IF k \in DOMAIN b THEN b[k] ELSE a[k]]

\* No request of the kind is in flight
IdleRequest == [pc |-> "idle"]

Without(o, ks) == [k \in DOMAIN o \ ks |-> o[k]]

RECURSIVE TrimLeft(_)
TrimLeft(s) ==
    IF s = <<>> THEN s
    ELSE IF Head(s) = " " THEN TrimLeft(Tail(s)) ELSE s

RECURSIVE TrimRight(_)
TrimRight(s) ==
    IF s = <<>> THEN s
    ELSE IF s[Len(s)] = " " THEN TrimRight(SubSeq(s, 1, Len(s) - 1)) ELSE s

\* String.prototype.trim
Trim(s) == TrimRight(TrimLeft(s))

\* str.replace(/[<>]/g, '')
StripAngle(s) == SelectSeq(s, LAMBDA c : c \notin {"<", ">"})

\* validateInput.sanitizeString: trim first, then drop every '<' and '>'
sanitizeString(str) == StripAngle(Trim(str))

\* s.includes(sub)
Contains(s, sub) ==
    \E i \in 1..(Len(s) - Len(sub) + 1) : SubSeq(s, i, i + Len(sub) - 1) = sub

----------------------------------------------------------------------------
(* The clock *)

MaxClock == 1

InitClock == now = 0

\* Time passes between two steps.
Tick ==
    /\ now < MaxClock
    /\ now' = now + 1
    /\ UNCHANGED notClockVars

----------------------------------------------------------------------------
(* Project Store *)

MinProjectName == 3
MaxProjectName == 50

\* validateInput.projectName (the name is a string here)
projectName(name) ==
    /\ name # <<>>
    /\ Len(Trim(name)) >= MinProjectName
    /\ Len(Trim(name)) <= MaxProjectName

MaxIds == 2

\* The identifiers Math.random() can yield; a save draws one never issued.
ProjectIds == 1..MaxIds

\* Request bodies of POST /api/projects: three that pass validation and
\* four that do not.
ProjectBundles ==
    { \* nothing to sanitize
      [name |-> <<"a", "b", "c">>,
       businessInfo |-> [name |-> <<"x">>, industry |-> <<"i">>, description |-> <<"d">>],
       scrapedData |-> 1],
      \* name and businessInfo.name to sanitize, no description, and an id
      \* and a savedAt of the client's own
      [name |-> <<"<", " ", "a", "b", " ">>,
       businessInfo |-> [name |-> <<" ", "<", "x", ">">>, industry |-> <<"<", "i">>],
       scrapedData |-> 1, id |-> 9, savedAt |-> 7],
      \* a description to sanitize, and a name of four characters of which
      \* sanitizing leaves two
      [name |-> <<"<", "a", "b", ">">>,
       businessInfo |-> [name |-> <<"y">>, description |-> <<" ", "d", ">">>],
       scrapedData |-> 2],
      \* two characters after trim
      [name |-> <<" ", "a", "b", " ">>,
       businessInfo |-> [name |-> <<"x">>], scrapedData |-> 1],
      \* empty business name
      [name |-> <<"a", "b", "c">>,
       businessInfo |-> [name |-> <<>>, industry |-> <<"i">>], scrapedData |-> 1],
      \* no businessInfo, no name
      [name |-> <<"a", "b", "c">>, scrapedData |-> 1],
      [businessInfo |-> [name |-> <<"x">>], scrapedData |-> 1] }

\* Map.prototype.set: a new key goes last, an existing key keeps its place
MapSetKeys(keys, k) == IF \E i \in 1..Len(keys) : keys[i] = k THEN keys ELSE Append(keys, k)

MapSetEntries(m, k, v) == [x \in DOMAIN m \cup {k} |-> IF x = k THEN v ELSE m[x]]

\* Map.prototype.delete
MapDeleteKeys(keys, k) == SelectSeq(keys, LAMBDA x : x # k)

MapDeleteEntries(m, k) == [x \in DOMAIN m \ {k} |-> m[x]]

\* The validation of POST /api/projects: the field rejected, or "ok"
SaveRejects(projectData) ==
    IF ~Has(projectData, "name") \/ ~projectName(projectData.name) THEN "name"
    ELSE IF \/ ~Has(projectData, "businessInfo")
            \/ ~Has(projectData.businessInfo, "name")
            \/ projectData.businessInfo.name = <<>> THEN "businessInfo"
    ELSE "ok"

\* Mutant: the description is left as submitted (absent stays absent).
SanitizeBusinessInfo_NoDefault(bi) ==
    Merge(bi, [name |-> sanitizeString(bi.name)])

SanitizeBusinessInfo(bi) ==
    Merge(bi, [name |-> sanitizeString(bi.name),
               description |-> IF Has(bi, "description") /\ bi.description # <<>>
                               THEN sanitizeString(bi.description)
                               ELSE <<>>])

\* const sanitizedProjectData = {...projectData, name: ..., businessInfo: {...}}
SanitizeProjectData(projectData) ==
    Merge(projectData, [name |-> sanitizeString(projectData.name),
                        businessInfo |-> SanitizeBusinessInfo(projectData.businessInfo)])

\* const project = {id: projectId, ...sanitizedProjectData, savedAt: now}
BuildProject(projectId, sanitizedProjectData, t) ==
    Merge(Merge([id |-> projectId], sanitizedProjectData), [savedAt |-> t])

\* POST /api/projects
SaveProject(projectData, projectId) ==
    /\ SaveRejects(projectData) = "ok" => projectId \notin DOMAIN submitted
    /\ IF SaveRejects(projectData) # "ok"
       THEN /\ projResp' = [op |-> "save", status |-> 400, field |-> SaveRejects(projectData)]
            /\ UNCHANGED <<generatedProjects, projectKeys, submitted>>
       ELSE /\ generatedProjects' =
                  MapSetEntries(generatedProjects, projectId,
                      BuildProject(projectId, SanitizeProjectData(projectData), now))
            /\ projectKeys' = MapSetKeys(projectKeys, projectId)
            /\ submitted' = MapSetEntries(submitted, projectId, projectData)
            /\ projResp' = [op |-> "save", status |-> 200, projectId |-> projectId]
    /\ UNCHANGED <<deleted, now, notProjVars>>

\* The id parameter of a request: a stored or unknown alphanumeric id, or 0
\* for one with a character outside [a-zA-Z0-9].
IdParams == ProjectIds \cup {0}

IdIsAlnum(id) == id # 0

\* GET /api/projects/:id, as a function of the store
GetProjectResponse(id) ==
    IF ~IdIsAlnum(id) THEN [op |-> "get", status |-> 400, id |-> id]
    ELSE IF id \notin DOMAIN generatedProjects
         THEN [op |-> "get", status |-> 404, id |-> id]
         ELSE [op |-> "get", status |-> 200, id |-> id, project |-> generatedProjects[id]]

GetProject(id) ==
    /\ projResp' = GetProjectResponse(id)
    /\ UNCHANGED <<generatedProjects, projectKeys, submitted, deleted, now, notProjVars>>

\* DELETE /api/projects/:id
DeleteProject(id) ==
    /\ IF ~IdIsAlnum(id)
       THEN /\ projResp' = [op |-> "delete", status |-> 400, id |-> id]
            /\ UNCHANGED <<generatedProjects, projectKeys, deleted>>
       ELSE IF id \notin DOMAIN generatedProjects
       THEN /\ projResp' = [op |-> "delete", status |-> 404, id |-> id]
            /\ UNCHANGED <<generatedProjects, projectKeys, deleted>>
       ELSE /\ generatedProjects' = MapDeleteEntries(generatedProjects, id)
            /\ projectKeys' = MapDeleteKeys(projectKeys, id)
            /\ deleted' = deleted \cup {id}
            /\ projResp' = [op |-> "delete", status |-> 200, id |-> id]
    /\ UNCHANGED <<submitted, now, notProjVars>>

\* Array.prototype.sort with (a, b) => new Date(b.savedAt) - new Date(a.savedAt):
\* a stable sort, newest first. An entry without savedAt makes the difference
\* NaN, which sort takes as 0: the two entries keep their order.
RECURSIVE InsertBySavedAt(_, _)
InsertBySavedAt(sorted, p) ==
    IF sorted = <<>> THEN <<p>>
    ELSE IF /\ Has(Head(sorted), "savedAt")
            /\ Has(p, "savedAt")
            /\ Head(sorted).savedAt < p.savedAt
         THEN <<p>> \o sorted
         ELSE <<Head(sorted)>> \o InsertBySavedAt(Tail(sorted), p)

RECURSIVE SortBySavedAt(_)
SortBySavedAt(ps) ==
    IF ps = <<>> THEN <<>>
    ELSE InsertBySavedAt(SortBySavedAt(SubSeq(ps, 1, Len(ps) - 1)), ps[Len(ps)])

\* GET /api/projects
ListProjects ==
    /\ projResp' = [op |-> "list", status |-> 200,
                    projects |-> SortBySavedAt([i \in 1..Len(projectKeys) |->
                                                   generatedProjects[projectKeys[i]]])]
    /\ UNCHANGED <<generatedProjects, projectKeys, submitted, deleted, now, notProjVars>>

InitProjects ==
    /\ generatedProjects = EmptyObj
    /\ projectKeys = <<>>
    /\ projResp = [op |-> "none", status |-> 0]
    /\ submitted = EmptyObj
    /\ deleted = {}

NextProjects ==
    \/ \E b \in ProjectBundles, id \in ProjectIds : SaveProject(b, id)
    \/ \E id \in IdParams : GetProject(id)
    \/ \E id \in IdParams : DeleteProject(id)
    \/ ListProjects
    \/ Tick

----------------------------------------------------------------------------
(* Site Publisher *)

MaxViews == 3

Viewers == 1..MaxViews

\* Site 1 has been published before any view; site 2 may be published later.
SiteIds == {1, 2}

\* The siteId parameter of a view: a site id, or 0 for one with a character
\* outside [a-zA-Z0-9].
SiteParams == SiteIds \cup {0}

SiteBusinessNames == { <<"x">>, <<" ", "<", "x", ">">> }

NoFile == [st |-> "absent"]

EmptyFile == [st |-> "empty"]

JsonFile(metadata) == [st |-> "json", data |-> metadata]

\* The metadata saveHostedWebsite writes
NewSiteMetadata(siteId, businessName, t) ==
    [siteId |-> siteId, businessName |-> businessName,
     createdAt |-> t, lastAccessed |-> t, viewCount |-> 0]

\* POST /api/host-website: saveHostedWebsite under an id not in use.  Its
\* three file operations are taken as one step.
HostWebsite(siteId, businessName) ==
    /\ siteId \notin htmlFile
    /\ businessName # <<>>
    /\ htmlFile' = htmlFile \cup {siteId}
    /\ metaFile' = [metaFile EXCEPT
                       ![siteId] = JsonFile(NewSiteMetadata(siteId, sanitizeString(businessName), now))]
    /\ UNCHANGED <<view, now, notSiteVars>>

\* GET /hosted/:siteId up to its first await (fs.access)
ViewRequest(v, siteId) ==
    /\ view[v].pc = "idle"
    /\ view' = [view EXCEPT ![v] =
                   IF siteId = 0
                   THEN [pc |-> "done", site |-> siteId, status |-> 400]
                   ELSE [pc |-> "access", site |-> siteId]]
    /\ UNCHANGED <<htmlFile, metaFile, now, notSiteVars>>

\* fs.access returns; updateSiteVisit starts and awaits fs.readFile
ViewAccess(v) ==
    /\ view[v].pc = "access"
    /\ view' = [view EXCEPT ![v] =
                   IF view[v].site \in htmlFile
                   THEN [pc |-> "read", site |-> view[v].site]
                   ELSE [pc |-> "done", site |-> view[v].site, status |-> 404]]
    /\ UNCHANGED <<htmlFile, metaFile, now, notSiteVars>>

\* metadata.viewCount = (metadata.viewCount || 0) + 1; lastAccessed = now
VisitedMetadata(metadata, t) ==
    [metadata EXCEPT !.viewCount = metadata.viewCount + 1, !.lastAccessed = t]

\* fs.readFile returns: JSON.parse, the update of the copy in memory, and
\* the call of fs.writeFile; a file that does not parse makes updateSiteVisit
\* return null, and the page is served all the same
ViewRead(v) ==
    /\ view[v].pc = "read"
    /\ view' = [view EXCEPT ![v] =
                   IF metaFile[view[v].site].st = "json"
                   THEN [pc |-> "write", site |-> view[v].site,
                         metadata |-> VisitedMetadata(metaFile[view[v].site].data, now)]
                   ELSE [pc |-> "done", site |-> view[v].site, status |-> 200]]
    /\ UNCHANGED <<htmlFile, metaFile, now, notSiteVars>>

\* fs.writeFile opens meta.json, which truncates it
ViewWriteOpen(v) ==
    /\ view[v].pc = "write"
    /\ metaFile' = [metaFile EXCEPT ![view[v].site] = EmptyFile]
    /\ view' = [view EXCEPT ![v].pc = "writing"]
    /\ UNCHANGED <<htmlFile, now, notSiteVars>>

\* fs.writeFile writes the JSON and returns; res.sendFile
ViewWriteDone(v) ==
    /\ view[v].pc = "writing"
    /\ metaFile' = [metaFile EXCEPT ![view[v].site] = JsonFile(view[v].metadata)]
    /\ view' = [view EXCEPT ![v] = [pc |-> "done", site |-> view[v].site, status |-> 200]]
    /\ UNCHANGED <<htmlFile, now, notSiteVars>>

InitSites ==
    /\ htmlFile = {1}
    /\ metaFile = [s \in SiteIds |->
                      IF s = 1 THEN JsonFile(NewSiteMetadata(1, <<"x">>, 0)) ELSE NoFile]
    /\ view = [v \in Viewers |-> IdleRequest]

NextSites ==
    \/ \E id \in SiteIds, n \in SiteBusinessNames : HostWebsite(id, n)
    \/ \E v \in Viewers, id \in SiteParams : ViewRequest(v, id)
    \/ \E v \in Viewers : ViewAccess(v)
    \/ \E v \in Viewers : ViewRead(v)
    \/ \E v \in Viewers : ViewWriteOpen(v)
    \/ \E v \in Viewers : ViewWriteDone(v)
    \/ Tick

----------------------------------------------------------------------------
(* Generation Pipeline: the LLM Gateway as its callers see it *)

\* How one callLLM ends: the provider's text, a resolved value that is no
\* string (a null content, a missing text block), or an error thrown.
LLMMissing == [k |-> "missing"]

Thrown(m) == [k |-> "throw", message |-> m]

\* The markdown fences are single tokens, as html.replace removes them whole.
LLMTextSamples ==
    { <<"[fence html]", "H", "[fence]", " ">>,  \* a fenced document
      <<>>,                            \* the empty string
      <<"[fence html]", "[fence]">> }           \* fences and nothing else

LLMOutcomes ==
    { [k |-> "text", text |-> t] : t \in LLMTextSamples }
    \cup { LLMMissing, Thrown("API quota exceeded") }

\* The error a caller's catch receives
ErrorMessage(outcome) ==
    IF outcome.k = "throw" THEN outcome.message
    ELSE "Cannot read properties of undefined"

\* html.replace(<fence html>, '').replace(<fence>, '').trim()
CleanHtml(html) == Trim(SelectSeq(html, LAMBDA c : c \notin {"[fence html]", "[fence]"}))

\* x || fallback, for a string field that may be absent
OrDefault(o, k, fallback) == IF Has(o, k) /\ o[k] # <<>> THEN o[k] ELSE fallback

\* generateFallbackWebsite: the template, its fixed text cut into pieces
generateFallbackWebsite(businessInfo) ==
    <<"<!DOCTYPE html><html><head><title>">> \o businessInfo.name
    \o <<"</title></head><body><header><h1>">> \o businessInfo.name
    \o <<"</h1></header><main><h2>Welcome to ">> \o businessInfo.name
    \o <<"</h2><p>">>
    \o OrDefault(businessInfo, "services", <<"Professional services you can trust">>)
    \o <<"</p><h3>Our Services</h3><p>">>
    \o OrDefault(businessInfo, "services", <<"Quality services tailored to your needs.">>)
    \o <<"</p><h3>About Us</h3><p>Experienced professionals in ">>
    \o OrDefault(businessInfo, "industry", <<"our field">>)
    \o <<".</p></main><footer><p>&copy; 2025 ">> \o businessInfo.name
    \o <<". All rights reserved.</p></footer></body></html>">>

\* generateWebsiteWithAI, given how its callLLM ends: the try block returns
\* the cleaned text, the catch block the fallback site
generateWebsiteWithAI(businessInfo, outcome, t) ==
    IF outcome.k = "text"
    THEN [html |-> CleanHtml(outcome.text),
          title |-> <<"Modern ">> \o businessInfo.name \o <<" Website">>,
          description |-> <<"AI-generated modern website for ">> \o businessInfo.name,
          generatedAt |-> t]
    ELSE [html |-> generateFallbackWebsite(businessInfo),
          title |-> businessInfo.name \o <<" Website">>,
          description |-> <<"Professional website for ">> \o businessInfo.name,
          generatedAt |-> t,
          error |-> ErrorMessage(outcome)]

----------------------------------------------------------------------------
(* Generation Pipeline: POST /api/recreate *)

MinVersions == 1
MaxVersions == 5

DigitChars == <<"0", "1", "2", "3", "4", "5", "6", "7", "8", "9">>

IsDigit(c) == \E i \in 1..Len(DigitChars) : DigitChars[i] = c

DigitOf(c) == (CHOOSE i \in 1..Len(DigitChars) : DigitChars[i] = c) - 1

\* The value of the longest run of digits that starts s, after acc
RECURSIVE DigitsValue(_, _)
DigitsValue(s, acc) ==
    IF s = <<>> \/ ~IsDigit(Head(s)) THEN acc
    ELSE DigitsValue(Tail(s), 10 * acc + DigitOf(Head(s)))

\* parseInt of a string: leading blanks, a sign, then digits; NaN without
\* a digit there
ParseIntStr(str) ==
    LET t == TrimLeft(str)
        signed == t # <<>> /\ Head(t) \in {"-", "+"}
        d == IF signed THEN Tail(t) ELSE t
    IN  IF d = <<>> \/ ~IsDigit(Head(d)) THEN [nan |-> TRUE]
        ELSE IF signed /\ Head(t) = "-" THEN [nan |-> FALSE, v |-> 0 - DigitsValue(d, 0)]
        ELSE [nan |-> FALSE, v |-> DigitsValue(d, 0)]

\* parseInt(versionCount), versionCount = 1 when the body has none
parseInt(versionCount) ==
    CASE versionCount.t = "absent" -> [nan |-> FALSE, v |-> 1]
      [] versionCount.t = "null" -> [nan |-> TRUE]
      [] versionCount.t = "int" -> [nan |-> FALSE, v |-> versionCount.v]
      [] versionCount.t = "str" -> ParseIntStr(versionCount.s)

Min(a, b) == IF a < b THEN a ELSE b

Max(a, b) == IF a > b THEN a ELSE b

\* x || 1: NaN and 0 are falsy
OrOne(n) == IF n.nan \/ n.v = 0 THEN 1 ELSE n.v

\* the mutant: the lower end of the clamp left out
numVersions_NoFloor(versionCount) ==
    Min(OrOne(parseInt(versionCount)), MaxVersions)

\* Math.min(Math.max(parseInt(versionCount) || 1, 1), 5)
numVersions(versionCount) ==
    Min(Max(OrOne(parseInt(versionCount)), MinVersions), MaxVersions)

VersionCountSamples ==
    { [t |-> "absent"], [t |-> "null"] }
    \cup { [t |-> "int", v |-> n] : n \in -1..7 }
    \cup { [t |-> "str", s |-> x] :
            x \in { <<"7">>, <<"2">>, <<"0">>, <<"a", "b">>, <<"3", "x">>,
                    <<"-", "4">>, <<" ", "1", "2">>, <<>> } }

RecreateBodies ==
    { [scrapedData |-> 1, businessInfo |-> [name |-> <<"A", "c">>, industry |-> <<"i">>],
       versionCount |-> vc] : vc \in VersionCountSamples }
    \cup { [scrapedData |-> 1,
            businessInfo |-> [name |-> <<" ", "<", "A", ">">>, services |-> <<"s">>,
                              description |-> <<"d">>],
            versionCount |-> [t |-> "int", v |-> 2]],
            [businessInfo |-> [name |-> <<"A">>], versionCount |-> [t |-> "absent"]],
           [scrapedData |-> 1, versionCount |-> [t |-> "absent"]],
           [scrapedData |-> 1, businessInfo |-> [name |-> <<" ">>],
            versionCount |-> [t |-> "absent"]] }

\* The validation of POST /api/recreate: the field rejected, or "ok"
RecreateRejects(body) ==
    IF ~Has(body, "scrapedData") THEN "scrapedData"
    ELSE IF ~Has(body, "businessInfo") THEN "businessInfo"
    ELSE IF ~Has(body.businessInfo, "name") \/ Trim(body.businessInfo.name) = <<>>
         THEN "businessInfo.name"
    ELSE "ok"

\* sanitizedBusinessInfo of POST /api/recreate
RecreateSanitize(businessInfo) ==
    Merge(businessInfo,
          [name |-> sanitizeString(businessInfo.name),
           description |-> IF Has(businessInfo, "description") /\ businessInfo.description # <<>>
                           THEN sanitizeString(businessInfo.description) ELSE <<>>,
           industry |-> IF Has(businessInfo, "industry") /\ businessInfo.industry # <<>>
                        THEN sanitizeString(businessInfo.industry) ELSE <<>>])

\* POST /api/recreate up to its first await: validation, numVersions, the
\* sanitized business facts, and the first call of generateWebsiteWithAI when
\* the loop is entered
RecreateRequest(body) ==
    /\ recreate.pc = "idle"
    /\ recreate' =
          IF RecreateRejects(body) # "ok"
          THEN [pc |-> "done", body |-> body,
                resp |-> [status |-> 400, field |-> RecreateRejects(body)]]
          ELSE LET n == numVersions(body.versionCount)
                   st == [body |-> body, numVersions |-> n,
                          businessInfo |-> RecreateSanitize(body.businessInfo),
                          i |-> 0, versions |-> <<>>, calls |-> 0, outcomes |-> <<>>]
               IN  IF 0 < n
                   THEN Merge(st, [pc |-> "generate", calls |-> 1])
                   ELSE Merge(st, [pc |-> "done",
                                   resp |-> [status |-> 500,
                                             error |-> "Failed to generate any website versions"]])
    /\ UNCHANGED <<outreach, now, notGenVars>>

\* A value the test if (newWebsite) takes as false
JsNull == [isNull |-> TRUE]

Truthy(o) == ~Has(o, "isNull")

\* the mutant: a batch of one version taken as a failure
RecreateFailed_AtMostOne(versions) == Len(versions) <= 1

\* versions.length === 0
RecreateFailed(versions) == Len(versions) = 0

\* One call of generateWebsiteWithAI returns: the version is pushed when the
\* result is truthy; after the last one the batch is stored under a fresh
\* projectId, or the request fails with no version at all
RecreateLLMReturn(outcome, projectId) ==
    /\ recreate.pc = "generate"
    /\ projectId \notin DOMAIN generatedProjects
    /\ LET newWebsite == generateWebsiteWithAI(recreate.businessInfo, outcome, now)
           versions == IF Truthy(newWebsite)
                       THEN Append(recreate.versions,
                                   Merge(newWebsite, [versionNumber |-> recreate.i + 1,
                                                      versionId |-> recreate.i + 1]))
                       ELSE recreate.versions
           st == Merge(recreate, [versions |-> versions, i |-> recreate.i + 1,
                                  outcomes |-> Append(recreate.outcomes,
                                                     [llm |-> outcome, site |-> newWebsite])])
       IN  IF recreate.i + 1 < recreate.numVersions
           THEN /\ recreate' = Merge(st, [calls |-> recreate.calls + 1])
                /\ UNCHANGED <<generatedProjects, projectKeys>>
           ELSE IF RecreateFailed(versions)
           THEN /\ recreate' = Merge(st, [pc |-> "done",
                                          resp |-> [status |-> 500,
                                                    error |-> "Failed to generate any website versions"]])
                /\ UNCHANGED <<generatedProjects, projectKeys>>
           ELSE /\ recreate' = Merge(st, [pc |-> "host", projectId |-> projectId])
                /\ generatedProjects' =
                      MapSetEntries(generatedProjects, projectId,
                                    [versions |-> versions,
                                     businessInfo |-> recreate.businessInfo,
                                     timestamp |-> now])
                /\ projectKeys' = MapSetKeys(projectKeys, projectId)
    /\ UNCHANGED <<projResp, submitted, deleted, outreach, now, siteVars, scrapeVars, cfgVars>>

\* The response of a finished batch
RecreateResponse(st, hostedSite) ==
    [status |-> 200, versions |-> st.versions, projectId |-> st.projectId,
     hostedSite |-> hostedSite, totalVersions |-> Len(st.versions)]

\* saveHostedWebsite(versions[0], ...) succeeds: both files of a fresh site
\* are written and the response carries the hosted site
RecreateHosted(siteId) ==
    /\ recreate.pc = "host"
    /\ siteId \notin htmlFile
    /\ LET metadata == NewSiteMetadata(siteId, recreate.businessInfo.name, now)
       IN  /\ htmlFile' = htmlFile \cup {siteId}
           /\ metaFile' = [metaFile EXCEPT ![siteId] = JsonFile(metadata)]
           /\ recreate' = Merge(recreate,
                                [pc |-> "done",
                                 resp |-> RecreateResponse(recreate, [siteId |-> siteId,
                                                                     metadata |-> metadata])])
    /\ UNCHANGED <<view, outreach, now, projVars, scrapeVars, cfgVars>>

\* saveHostedWebsite throws: the error is logged and hostedSite stays null
RecreateHostFailed ==
    /\ recreate.pc = "host"
    /\ recreate' = Merge(recreate, [pc |-> "done",
                                    resp |-> RecreateResponse(recreate, JsNull)])
    /\ UNCHANGED <<outreach, now, notGenVars>>

----------------------------------------------------------------------------
(* Generation Pipeline: POST /api/outreach *)

MaxOutreachTokens == 3000

\* validateInput.email: ^[^\s@]+@[^\s@]+\.[^\s@]+$
email(s) ==
    /\ \A i \in 1..Len(s) : s[i] # " "
    /\ \E i \in 2..Len(s) :
          /\ s[i] = "@"
          /\ \A j \in 1..Len(s) : s[j] = "@" => j = i
          /\ \E j \in (i + 2)..(Len(s) - 1) : s[j] = "."

\* toLowerCase on one character, or on one atom of a URL
Lower(c) ==
    LET lower == [A |-> "a", B |-> "b", C |-> "c", About |-> "about"]
    IN  IF c \in DOMAIN lower THEN lower[c] ELSE c

toLowerCase(s) == [i \in 1..Len(s) |-> Lower(s[i])]

OutreachBodies ==
    { [businessInfo |-> [name |-> n], generatedWebsite |-> 1, yourName |-> <<"Y">>,
       yourEmail |-> e, packagePrice |-> <<"$", "9">>] :
        n \in { <<"A", "c">>, <<" ", "<", "A", ">">> },
        e \in { <<"a", "@", "b", ".", "c">>, <<"A", "@", "B", ".", "c">> } }
    \cup { [generatedWebsite |-> 1, yourName |-> <<"Y">>, yourEmail |-> <<"a", "@", "b", ".", "c">>],
           [businessInfo |-> [name |-> <<" ">>], generatedWebsite |-> 1, yourName |-> <<"Y">>,
            yourEmail |-> <<"a", "@", "b", ".", "c">>],
           [businessInfo |-> [name |-> <<"A">>], yourName |-> <<"Y">>,
            yourEmail |-> <<"a", "@", "b", ".", "c">>],
           [businessInfo |-> [name |-> <<"A">>], generatedWebsite |-> 1,
            yourEmail |-> <<"a", "@", "b", ".", "c">>],
           [businessInfo |-> [name |-> <<"A">>], generatedWebsite |-> 1, yourName |-> <<"Y">>,
            yourEmail |-> <<"a", "@", "b">>],
           [businessInfo |-> [name |-> <<"A">>], generatedWebsite |-> 1, yourName |-> <<"Y">>,
            yourEmail |-> <<"a", "@", "b", ".", "c">>] }

\* The validation of POST /api/outreach: the field rejected, or "ok"
OutreachRejects(body) ==
    IF ~Has(body, "businessInfo") THEN "businessInfo"
    ELSE IF ~Has(body.businessInfo, "name") \/ Trim(body.businessInfo.name) = <<>>
         THEN "businessInfo.name"
    ELSE IF ~Has(body, "generatedWebsite") THEN "generatedWebsite"
    ELSE IF ~Has(body, "yourName") \/ Trim(body.yourName) = <<>> THEN "yourName"
    ELSE IF ~Has(body, "yourEmail") \/ body.yourEmail = <<>> \/ ~email(body.yourEmail)
         THEN "yourEmail"
    ELSE "ok"

\* sanitizedBusinessInfo of POST /api/outreach
OutreachSanitize(businessInfo) ==
    Merge(businessInfo,
          [name |-> sanitizeString(businessInfo.name),
           description |-> IF Has(businessInfo, "description") /\ businessInfo.description # <<>>
                           THEN sanitizeString(businessInfo.description) ELSE <<>>])

\* The outreachInfo handed to generateOutreachWithAI
OutreachInfo(body) ==
    [yourName |-> sanitizeString(body.yourName),
     yourEmail |-> toLowerCase(Trim(body.yourEmail)),
     packagePrice |-> IF Has(body, "packagePrice") /\ body.packagePrice # <<>>
                      THEN sanitizeString(body.packagePrice) ELSE <<>>]

generateFallbackEmail(businessInfo, outreachInfo) ==
    <<"Subject: Quick Question About ">> \o businessInfo.name
    \o <<"'s Website ... I was looking at ">> \o businessInfo.name
    \o <<"'s website ... could look like for ">> \o businessInfo.name
    \o <<". ... Best regards, ">> \o outreachInfo.yourName
    \o <<" ">> \o outreachInfo.yourEmail
    \o <<" P.S. - ... starting at ">> \o outreachInfo.packagePrice

\* the mutant: the sender's address left out of the proposal
generateFallbackProposal_NoSender(businessInfo, outreachInfo) ==
    <<"WEBSITE REDESIGN PROPOSAL ">> \o businessInfo.name
    \o <<" EXECUTIVE SUMMARY ... redesign for ">> \o businessInfo.name
    \o <<" to improve ... INVESTMENT Complete website redesign: ">> \o outreachInfo.packagePrice
    \o <<" TIMELINE ... NEXT STEPS ... ">> \o outreachInfo.yourName

generateFallbackProposal(businessInfo, outreachInfo) ==
    <<"WEBSITE REDESIGN PROPOSAL ">> \o businessInfo.name
    \o <<" EXECUTIVE SUMMARY ... redesign for ">> \o businessInfo.name
    \o <<" to improve ... INVESTMENT Complete website redesign: ">> \o outreachInfo.packagePrice
    \o <<" TIMELINE ... NEXT STEPS ... ">> \o outreachInfo.yourName
    \o <<" ">> \o outreachInfo.yourEmail

\* The catch branch of generateOutreachWithAI
OutreachFallback(businessInfo, outreachInfo, message, t) ==
    [email |-> generateFallbackEmail(businessInfo, outreachInfo),
     proposal |-> generateFallbackProposal(businessInfo, outreachInfo),
     generatedAt |-> t, error |-> message]

\* What generateOutreachWithAI returns once Promise.all has settled: with
\* both texts, trimmed; with a rejection, or a text that is no string, the
\* fallback pair
generateOutreachWithAI(businessInfo, outreachInfo, emailCall, proposalCall, t) ==
    IF emailCall.k = "throw"
    THEN OutreachFallback(businessInfo, outreachInfo, ErrorMessage(emailCall), t)
    ELSE IF proposalCall.k = "throw"
    THEN OutreachFallback(businessInfo, outreachInfo, ErrorMessage(proposalCall), t)
    ELSE IF emailCall.k = "text" /\ proposalCall.k = "text"
    THEN [email |-> Trim(emailCall.text), proposal |-> Trim(proposalCall.text),
          generatedAt |-> t]
    ELSE OutreachFallback(businessInfo, outreachInfo, ErrorMessage(LLMMissing), t)

LLMPending == [k |-> "pending"]

\* Promise.all([email, proposal]) has settled: a rejection, or both fulfilled
PromiseAllSettled(emailCall, proposalCall) ==
    \/ emailCall.k = "throw"
    \/ proposalCall.k = "throw"
    \/ emailCall.k # "pending" /\ proposalCall.k # "pending"

\* POST /api/outreach up to its first await: validation, sanitizing, and both
\* callLLM calls started
OutreachRequest(body) ==
    /\ outreach.pc = "idle"
    /\ outreach' =
          IF OutreachRejects(body) # "ok"
          THEN [pc |-> "done", body |-> body,
                resp |-> [status |-> 400, field |-> OutreachRejects(body)]]
          ELSE [pc |-> "await", body |-> body,
                businessInfo |-> OutreachSanitize(body.businessInfo),
                outreachInfo |-> OutreachInfo(body),
                emailCall |-> LLMPending, proposalCall |-> LLMPending,
                maxOutreachTokens |-> apiConfig.maxOutreachTokens.v,
                emailMaxTokens |-> apiConfig.maxOutreachTokens.v \div 3,
                proposalMaxTokens |-> apiConfig.maxOutreachTokens.v]
    /\ UNCHANGED <<recreate, now, notGenVars>>

\* One of the two callLLM calls settles; the request is answered when that
\* settles Promise.all, and a call settling after the answer changes nothing
\* but its own state
OutreachSettled(st) ==
    IF st.pc = "await" /\ PromiseAllSettled(st.emailCall, st.proposalCall)
    THEN Merge(st, [pc |-> "done",
                    resp |-> Merge([status |-> 200],
                                   generateOutreachWithAI(st.businessInfo, st.outreachInfo,
                                                          st.emailCall, st.proposalCall, now))])
    ELSE st

OutreachEmailReturn(outcome) ==
    /\ outreach.pc \in {"await", "done"}
    /\ Has(outreach, "emailCall")
    /\ outreach.emailCall = LLMPending
    /\ outreach' = OutreachSettled(Merge(outreach, [emailCall |-> outcome]))
    /\ UNCHANGED <<recreate, now, notGenVars>>

OutreachProposalReturn(outcome) ==
    /\ outreach.pc \in {"await", "done"}
    /\ Has(outreach, "proposalCall")
    /\ outreach.proposalCall = LLMPending
    /\ outreach' = OutreachSettled(Merge(outreach, [proposalCall |-> outcome]))
    /\ UNCHANGED <<recreate, now, notGenVars>>

InitGen ==
    /\ recreate = IdleRequest
    /\ outreach = IdleRequest

NextRecreate ==
    \/ \E body \in RecreateBodies : RecreateRequest(body)
    \/ \E o \in LLMOutcomes, id \in ProjectIds : RecreateLLMReturn(o, id)
    \/ \E id \in SiteIds : RecreateHosted(id)
    \/ RecreateHostFailed

NextOutreach ==
    \/ \E body \in OutreachBodies : OutreachRequest(body)
    \/ \E o \in LLMOutcomes : OutreachEmailReturn(o)
    \/ \E o \in LLMOutcomes : OutreachProposalReturn(o)
    \/ Tick

----------------------------------------------------------------------------
(* Scrape Orchestrator: what the provider and the fetch can answer *)

\* URLs are sequences of atoms, the origin first.
\* The numbers of links and of images extractLinks and extractImages keep
LinkCap == 15

ImageCap == 100

Home == <<"h">>

LinkLists ==
    { <<>>,
      <<[t |-> "str", url |-> Home]>>,
      <<[t |-> "str", url |-> <<"h", "blog">>], [t |-> "obj", url |-> <<"h", "About">>]>>,
      <<[t |-> "obj", url |-> <<"h", "blog">>], [t |-> "str", url |-> <<"h", "blog">>], [t |-> "str", url |-> <<"h", "contact">>]>> }

\* firecrawl.map: a result with links, a result without the links field, no
\* result, or an error
MapOutcomes ==
    { [k |-> "result", links |-> l] : l \in LinkLists }
    \cup { [k |-> "result"], [k |-> "null"],
           Thrown(<<"Rate limit", " exceeded">>), Thrown(<<"ECONNRESET">>) }

\* The html of a page: its href attributes and its img tags, in order
PageHtml == [hrefs |-> << <<"http://a">>, <<"/b">>, <<"http://a">>, <<"mailto:x">> >>,
             imgs |-> << [src |-> <<"/i.png">>, alt |-> <<"logo">>],
                         [src |-> <<"http://a", "/j.png">>],
                         [src |-> <<"/i.png">>] >>]

\* The html of a page with one more distinct absolute link than extractLinks
\* keeps: link i is the origin followed by i path segments
LinkRichHtml ==
    [hrefs |-> [i \in 1..(LinkCap + 1) |-> <<"http://a">> \o [j \in 1..i |-> "/l"]],
     imgs |-> <<>>]

\* firecrawl.scrape: a page (markdown, and perhaps html and metadata, the
\* metadata an open object that carries the page's own meta tags), no result,
\* or an error
ScrapeOutcomes ==
    { [k |-> "page", markdown |-> <<"Acme", "e1", "p1", "e2">>, html |-> PageHtml,
       metadata |-> [title |-> <<"T">>, description |-> <<"D">>]],
      [k |-> "page", markdown |-> <<"w", "e2", "a1">>],
      [k |-> "page", markdown |-> <<"w">>,
       metadata |-> [method |-> "page-meta", hasContactInfo |-> TRUE]],
      [k |-> "page", markdown |-> <<>>, html |-> PageHtml],
      [k |-> "page", markdown |-> <<"w">>, html |-> LinkRichHtml],
      [k |-> "null"],
      Thrown(<<"Rate limit", " exceeded">>),
      Thrown(<<"ECONNRESET">>) }

\* fetch and response.text(): the document, as the title, description and text
\* the regular expressions of enhancedScrapeWebsite find in it, or an error
FetchOutcomes ==
    { [k |-> "html", title |-> <<" ", "T">>, text |-> <<"w", "p1">>, html |-> PageHtml],
      [k |-> "html", text |-> <<"w">>, html |-> [hrefs |-> <<>>, imgs |-> <<>>]],
      Thrown(<<"ENOTFOUND">>) }

----------------------------------------------------------------------------
(* Scrape Orchestrator: content extraction *)

\* content.match(regex)[0]: the first token of the kind, if any
FirstOf(content, kind) ==
    LET hits == SelectSeq(content, LAMBDA c : c \in kind)
    IN  IF hits = <<>> THEN EmptyObj ELSE [found |-> Head(hits)]

extractBusinessInfo(content) ==
    LET e == FirstOf(content, {"e1", "e2"})
        ph == FirstOf(content, {"p1", "p2"})
        a == FirstOf(content, {"a1"})
    IN  Merge(Merge(IF Has(e, "found") THEN [email |-> e.found] ELSE EmptyObj,
                    IF Has(ph, "found") THEN [phone |-> ph.found] ELSE EmptyObj),
              IF Has(a, "found") THEN [address |-> a.found] ELSE EmptyObj)

\* !!(businessInfo.email || businessInfo.phone)
hasContactInfo(businessInfo) == Has(businessInfo, "email") \/ Has(businessInfo, "phone")

\* The first non-blank line of the content, each token a line
extractTitleFromContent(content) ==
    LET lines == SelectSeq(content, LAMBDA c : c # " ")
    IN  IF lines = <<>> THEN <<"Website Title">> ELSE <<Head(lines)>>

\* The first sentence of more than 20 characters: the tokens are shorter
extractDescriptionFromContent(content) == <<>>

RECURSIVE Dedupe(_, _)
\* [...new Set(list)] and filter(indexOf === index): first occurrences, in order
Dedupe(list, seen) ==
    IF list = <<>> THEN <<>>
    ELSE IF Head(list) \in seen THEN Dedupe(Tail(list), seen)
    ELSE <<Head(list)>> \o Dedupe(Tail(list), seen \cup {Head(list)})

Take(list, n) == SubSeq(list, 1, Min(Len(list), n))

startsWithHttp(u) == u # <<>> /\ Head(u) \in {"h", "http://a"}

\* new URL(baseUrl).origin
Origin(baseUrl) == <<Head(baseUrl)>>

startsWithSlash(u) == u # <<>> /\ Head(u) \in {"/b", "/i.png"}

\* A URL starting with "/" is put under the origin of the page
Absolute(u, baseUrl) == IF startsWithSlash(u) THEN Origin(baseUrl) \o u ELSE u

extractLinks(html, baseUrl) ==
    LET abs == [i \in 1..Len(html.hrefs) |-> Absolute(html.hrefs[i], baseUrl)]
    IN  Take(Dedupe(SelectSeq(abs, startsWithHttp), {}), LinkCap)

RECURSIVE DedupeByUrl(_, _)
DedupeByUrl(images, seen) ==
    IF images = <<>> THEN <<>>
    ELSE IF Head(images).url \in seen THEN DedupeByUrl(Tail(images), seen)
    ELSE <<Head(images)>> \o DedupeByUrl(Tail(images), seen \cup {Head(images).url})

extractImages(html, baseUrl) ==
    LET imgs == [i \in 1..Len(html.imgs) |->
                    [url |-> Absolute(html.imgs[i].src, baseUrl),
                     alt |-> IF Has(html.imgs[i], "alt") THEN html.imgs[i].alt ELSE <<>>]]
    IN  Take(DedupeByUrl(SelectSeq(imgs, LAMBDA img : startsWithHttp(img.url)), {}), ImageCap)

----------------------------------------------------------------------------
(* Scrape Orchestrator: the results of the four strategies *)

SitemapContentCap == 50000

SingleContentCap == 10000

EnhancedContentCap == 8000

\* content.split(' ').length, each token a word
wordCount(content) == Max(Len(content), 1)

\* page.metadata?.title || '' and the like
PageMeta(page, k) ==
    IF Has(page, "metadata") THEN OrDefault(page.metadata, k, <<>>) ELSE <<>>

EmptyAggregate ==
    [combinedContent |-> <<>>, mainTitle |-> <<>>, mainDescription |-> <<>>,
     allBusinessInfo |-> EmptyObj, allLinks |-> <<>>, allImages |-> <<>>]

\* the mutant: a field keeps the value of the first page that has it
AggregatePage_FirstWins(acc, page, url) ==
    LET pageContent == page.markdown
        pageTitle == PageMeta(page, "title")
        pageDescription == PageMeta(page, "description")
        primary == page.url = url \/ acc.mainTitle = <<>>
    IN  [combinedContent |->
             acc.combinedContent \o <<"=== PAGE: ">> \o page.url
             \o <<"TITLE: ">> \o pageTitle \o <<"DESCRIPTION: ">> \o pageDescription
             \o <<"CONTENT: ">> \o pageContent,
         mainTitle |->
             IF primary
             THEN (IF pageTitle # <<>> THEN pageTitle ELSE extractTitleFromContent(pageContent))
             ELSE acc.mainTitle,
         mainDescription |->
             IF primary
             THEN (IF pageDescription # <<>> THEN pageDescription
                   ELSE extractDescriptionFromContent(pageContent))
             ELSE acc.mainDescription,
         allBusinessInfo |-> Merge(extractBusinessInfo(pageContent), acc.allBusinessInfo),
         allLinks |->
             IF Has(page, "html") THEN acc.allLinks \o extractLinks(page.html, page.url)
             ELSE acc.allLinks,
         allImages |->
             IF Has(page, "html") THEN acc.allImages \o extractImages(page.html, page.url)
             ELSE acc.allImages]

\* The body of the aggregation loop for one scraped page
AggregatePage(acc, page, url) ==
    LET pageContent == page.markdown
        pageTitle == PageMeta(page, "title")
        pageDescription == PageMeta(page, "description")
        primary == page.url = url \/ acc.mainTitle = <<>>
    IN  [combinedContent |->
             acc.combinedContent \o <<"=== PAGE: ">> \o page.url
             \o <<"TITLE: ">> \o pageTitle \o <<"DESCRIPTION: ">> \o pageDescription
             \o <<"CONTENT: ">> \o pageContent,
         mainTitle |->
             IF primary
             THEN (IF pageTitle # <<>> THEN pageTitle ELSE extractTitleFromContent(pageContent))
             ELSE acc.mainTitle,
         mainDescription |->
             IF primary
             THEN (IF pageDescription # <<>> THEN pageDescription
                   ELSE extractDescriptionFromContent(pageContent))
             ELSE acc.mainDescription,
         allBusinessInfo |-> Merge(acc.allBusinessInfo, extractBusinessInfo(pageContent)),
         allLinks |->
             IF Has(page, "html") THEN acc.allLinks \o extractLinks(page.html, page.url)
             ELSE acc.allLinks,
         allImages |->
             IF Has(page, "html") THEN acc.allImages \o extractImages(page.html, page.url)
             ELSE acc.allImages]

RECURSIVE Aggregate(_, _, _)
Aggregate(pages, acc, url) ==
    IF pages = <<>> THEN acc
    ELSE Aggregate(Tail(pages), AggregatePage(acc, Head(pages), url), url)

\* finalData of professionalScrapeWebsite
SitemapResult(st, t) ==
    LET agg == Aggregate(st.scrapedPages, EmptyAggregate, st.url)
        allLinks == Dedupe(agg.allLinks, {})
        allImages == DedupeByUrl(agg.allImages, {})
    IN  [title |-> IF agg.mainTitle # <<>> THEN agg.mainTitle ELSE <<"Website Title">>,
         description |-> agg.mainDescription,
         content |-> Take(agg.combinedContent, SitemapContentCap),
         fullContent |-> agg.combinedContent,
         links |-> allLinks,
         images |-> allImages,
         businessInfo |-> agg.allBusinessInfo,
         sitemap |-> [i \in 1..Len(st.links) |-> st.links[i].url],
         metadata |->
             [scrapedAt |-> t, url |-> st.url,
              method |-> "firecrawl-sitemap-comprehensive",
              totalPagesDiscovered |-> Len(st.links),
              pagesScraped |-> Len(st.scrapedPages),
              priorityPagesFound |-> st.priorityPagesFound,
              wordCount |-> wordCount(agg.combinedContent),
              imageCount |-> Len(allImages),
              hasContactInfo |-> hasContactInfo(agg.allBusinessInfo),
              scrapedUrls |-> [i \in 1..Len(st.scrapedPages) |-> st.scrapedPages[i].url],
              sitemapComplete |-> TRUE]]

\* What scrapeSinglePage returns for a page with markdown: the provider's
\* metadata is spread last into the metadata of the result
SingleResult(url, scrapeResult, t) ==
    LET content == scrapeResult.markdown
        html == IF Has(scrapeResult, "html") THEN scrapeResult.html
                ELSE [hrefs |-> <<>>, imgs |-> <<>>]
        title == IF PageMeta(scrapeResult, "title") # <<>>
                 THEN PageMeta(scrapeResult, "title") ELSE extractTitleFromContent(content)
        description == IF PageMeta(scrapeResult, "description") # <<>>
                       THEN PageMeta(scrapeResult, "description")
                       ELSE extractDescriptionFromContent(content)
        businessInfo == extractBusinessInfo(content)
        images == extractImages(html, url)
    IN  [title |-> IF title # <<>> THEN title ELSE <<"Website Title">>,
         description |-> description,
         content |-> Take(content, SingleContentCap),
         fullContent |-> content,
         links |-> extractLinks(html, url),
         images |-> images,
         businessInfo |-> businessInfo,
         metadata |->
             Merge([scrapedAt |-> t, url |-> url, method |-> "firecrawl-single",
                    wordCount |-> wordCount(content), imageCount |-> Len(images),
                    hasContactInfo |-> hasContactInfo(businessInfo)],
                   IF Has(scrapeResult, "metadata") THEN scrapeResult.metadata ELSE EmptyObj)]

\* What enhancedScrapeWebsite returns for a fetched document
EnhancedResult(url, fetched, t) ==
    LET textContent == fetched.text
        businessInfo == extractBusinessInfo(textContent)
        images == extractImages(fetched.html, url)
    IN  [title |-> IF Has(fetched, "title") THEN Trim(fetched.title) ELSE <<"Website Title">>,
         description |-> IF Has(fetched, "description") THEN Trim(fetched.description)
                         ELSE extractDescriptionFromContent(textContent),
         content |-> Take(textContent, EnhancedContentCap),
         fullContent |-> textContent,
         links |-> extractLinks(fetched.html, url),
         images |-> images,
         businessInfo |-> businessInfo,
         metadata |->
             [scrapedAt |-> t, url |-> url, method |-> "enhanced",
              wordCount |-> wordCount(textContent), imageCount |-> Len(images),
              hasContactInfo |-> hasContactInfo(businessInfo)]]

\* What the catch of enhancedScrapeWebsite returns
FallbackResult(url, message, t) ==
    [title |-> <<"Website Title">>,
     description |-> <<"Website description not available">>,
     content |-> <<"Could not extract content from this website.">>,
     links |-> <<>>,
     images |-> <<>>,
     businessInfo |-> EmptyObj,
     metadata |-> [scrapedAt |-> t, url |-> url, method |-> "fallback", error |-> message]]

----------------------------------------------------------------------------
(* Scrape Orchestrator: professionalScrapeWebsite, scrapeSinglePage and      *)
(* enhancedScrapeWebsite, one step per await                                 *)

PriorityCap == 12

DiscoverCap == 8

PageCap == 8

PaceSleep == 6

RateLimitSleep == 60

priorityKeywords ==
    {"about", "service", "contact", "product", "team", "portfolio", "pricing", "features"}

\* priorityKeywords.some(keyword => linkUrl.includes(keyword))
IsPriority(link) == \E i \in 1..Len(link.url) : Lower(link.url[i]) \in priorityKeywords

LinkUrls(links) == [i \in 1..Len(links) |-> links[i].url]

\* the mutant: the list is cut to the page limit before duplicates are removed
urlsToScrape_CutFirst(url, allDiscoveredUrls) ==
    LET priorityPages == SelectSeq(allDiscoveredUrls, IsPriority)
        priorityUrls == <<url>> \o LinkUrls(Take(priorityPages, PriorityCap))
                        \o LinkUrls(Take(allDiscoveredUrls, DiscoverCap))
    IN  Dedupe(Take(priorityUrls, PageCap), {})

\* the mutant: the homepage is not put first
urlsToScrape_NoHome(url, allDiscoveredUrls) ==
    LET priorityPages == SelectSeq(allDiscoveredUrls, IsPriority)
        priorityUrls == LinkUrls(Take(priorityPages, PriorityCap))
                        \o LinkUrls(Take(allDiscoveredUrls, DiscoverCap))
    IN  Take(Dedupe(priorityUrls, {}), PageCap)

\* urlsToScrape: the homepage, the first priority pages, the first discovered
\* pages, without duplicates, cut to the page limit
urlsToScrape(url, allDiscoveredUrls) ==
    LET priorityPages == SelectSeq(allDiscoveredUrls, IsPriority)
        priorityUrls == <<url>> \o LinkUrls(Take(priorityPages, PriorityCap))
                        \o LinkUrls(Take(allDiscoveredUrls, DiscoverCap))
    IN  Take(Dedupe(priorityUrls, {}), PageCap)

Return(value) == [k |-> "return", value |-> value]

\* The invocation ends: its caller gets a result, or an error
Finish(st, outcome) == Merge(st, [pc |-> "done", outcome |-> outcome])

Logged(st, op, url) == Append(st.log, [op |-> op, url |-> url, at |-> st.clock])

\* the mutant: the catch of enhancedScrapeWebsite throws the error on
enhancedCatch_Rethrow(url, message, t) == [k |-> "raise", message |-> message]

\* The catch of enhancedScrapeWebsite
enhancedCatch(url, message, t) == Return(FallbackResult(url, message, t))

\* enhancedScrapeWebsite once fetch has answered
enhancedScrapeWebsite(url, fetched, t) ==
    IF fetched.k = "html" THEN Return(EnhancedResult(url, fetched, t))
    ELSE enhancedCatch(url, fetched.message, t)

\* enhancedScrapeWebsite is entered: fetch is awaited
EnterEnhanced(st) == Merge(st, [pc |-> "fetch", log |-> Logged(st, "fetch", st.url)])

\* the mutant: the TypeError of a call on a client that is null leaves
\* scrapeSinglePage uncaught
EnterSingle_Uncaught(st) ==
    IF firecrawl = "null"
    THEN Finish(st, [k |-> "raise", message |-> <<"Cannot read properties of null">>])
    ELSE Merge(st, [pc |-> "single", log |-> Logged(st, "single", st.url)])

\* scrapeSinglePage is entered: firecrawl.scrape is awaited; when the client
\* is null at that moment the call is a TypeError, which the catch of
\* scrapeSinglePage takes to enhancedScrapeWebsite
EnterSingle(st) ==
    IF firecrawl = "null" THEN EnterEnhanced(st)
    ELSE Merge(st, [pc |-> "single", log |-> Logged(st, "single", st.url)])

\* pageResult && pageResult.markdown
HasMarkdown(scraped) == scraped.k = "page" /\ scraped.markdown # <<>>

\* the mutant: a single-page scrape without markdown is tried again
AfterSingle_Retry(st, scraped, t) ==
    IF HasMarkdown(scraped) THEN Finish(st, Return(SingleResult(st.url, scraped, t)))
    ELSE EnterSingle(st)

\* scrapeSinglePage once the provider has answered: the result, or through
\* the catch to enhancedScrapeWebsite
AfterSingle(st, scraped, t) ==
    IF HasMarkdown(scraped) THEN Finish(st, Return(SingleResult(st.url, scraped, t)))
    ELSE EnterEnhanced(st)

\* the mutant: no page scraped leads to the single-page scrape
AfterLoop_ToSingle(st, t) ==
    IF st.scrapedPages = <<>> THEN EnterSingle(st)
    ELSE Finish(st, Return(SitemapResult(st, t)))

\* After the loop over urlsToScrape
AfterLoop(st, t) ==
    IF st.scrapedPages = <<>> THEN EnterEnhanced(st)
    ELSE Finish(st, Return(SitemapResult(st, t)))

\* The head of the loop: the next page is requested, or the loop is left;
\* when the client is null the call is a TypeError whose message names no
\* rate limit, and the catch of the iteration goes on to the next page
RECURSIVE EnterPage(_, _)
EnterPage(st, t) ==
    IF st.i < Len(st.urlsToScrape)
    THEN IF firecrawl = "null"
         THEN EnterPage(Merge(st, [i |-> st.i + 1]), t)
         ELSE Merge(st, [pc |-> "page", log |-> Logged(st, "scrape", st.urlsToScrape[st.i + 1])])
    ELSE AfterLoop(st, t)

Sleep(st, dur) == Merge(st, [pc |-> "sleep", dur |-> dur])

\* the mutant: an error that is no rate limit ends the loop
AfterPage_AbortOnError(st, scraped, t) ==
    IF scraped.k = "throw"
    THEN IF Contains(scraped.message, <<"Rate limit">>)
         THEN Sleep(st, RateLimitSleep)
         ELSE AfterLoop(st, t)
    ELSE IF st.i < Len(st.urlsToScrape) - 1
         THEN Sleep(st, PaceSleep)
         ELSE EnterPage(Merge(st, [i |-> st.i + 1]), t)

\* One iteration of the loop once the provider has answered
AfterPage(st, scraped, t) ==
    IF scraped.k = "throw"
    THEN IF Contains(scraped.message, <<"Rate limit">>)
         THEN Sleep(st, RateLimitSleep)
         ELSE EnterPage(Merge(st, [i |-> st.i + 1]), t)
    ELSE LET pageUrl == st.urlsToScrape[st.i + 1]
             pushed ==
                 IF HasMarkdown(scraped)
                 THEN Merge(st, [scrapedPages |->
                        Append(st.scrapedPages,
                               Merge(Merge([url |-> pageUrl, markdown |-> scraped.markdown,
                                            content |-> scraped.markdown],
                                           IF Has(scraped, "html")
                                           THEN [html |-> scraped.html] ELSE EmptyObj),
                                     IF Has(scraped, "metadata")
                                     THEN [metadata |-> scraped.metadata] ELSE EmptyObj))])
                 ELSE st
         IN  IF st.i < Len(st.urlsToScrape) - 1
             THEN Sleep(pushed, PaceSleep)
             ELSE EnterPage(Merge(pushed, [i |-> st.i + 1]), t)

\* professionalScrapeWebsite once firecrawl.map has answered
AfterMap(st, mapped, t) ==
    IF mapped.k = "throw" THEN EnterSingle(st)
    ELSE IF mapped.k = "null" \/ ~Has(mapped, "links") \/ mapped.links = <<>>
    THEN EnterSingle(st)
    ELSE EnterPage(Merge(st, [links |-> mapped.links,
                              priorityPagesFound |-> Len(SelectSeq(mapped.links, IsPriority)),
                              urlsToScrape |-> urlsToScrape(st.url, mapped.links),
                              i |-> 0, scrapedPages |-> <<>>]), t)

\* POST /api/scrape picks professionalScrapeWebsite when there is a client and
\* enhancedScrapeWebsite when there is none
ScrapeStart(url) ==
    /\ scrape.pc = "idle"
    /\ scrape' =
          LET st == [pc |-> "idle", url |-> url, clock |-> 0, log |-> <<>>]
          IN  IF firecrawl = "client"
              THEN Merge(st, [pc |-> "map", entry |-> "professionalScrapeWebsite",
                              log |-> Logged(st, "map", url)])
              ELSE EnterEnhanced(Merge(st, [entry |-> "enhancedScrapeWebsite"]))
    /\ UNCHANGED <<firecrawl, now, notScrapeVars>>

MapReturn(mapped) ==
    /\ scrape.pc = "map"
    /\ scrape' = AfterMap(scrape, mapped, now)
    /\ UNCHANGED <<firecrawl, now, notScrapeVars>>

PageReturn(scraped) ==
    /\ scrape.pc = "page"
    /\ scrape' = AfterPage(scrape, scraped, now)
    /\ UNCHANGED <<firecrawl, now, notScrapeVars>>

\* The 6 or 60 time units of a sleep have passed
SleepDone ==
    /\ scrape.pc = "sleep"
    /\ scrape' = EnterPage(Merge(scrape, [i |-> scrape.i + 1,
                                          clock |-> scrape.clock + scrape.dur]), now)
    /\ UNCHANGED <<firecrawl, now, notScrapeVars>>

SingleReturn(scraped) ==
    /\ scrape.pc = "single"
    /\ scrape' = AfterSingle(scrape, scraped, now)
    /\ UNCHANGED <<firecrawl, now, notScrapeVars>>

FetchReturn(fetched) ==
    /\ scrape.pc = "fetch"
    /\ scrape' = Merge(Finish(scrape, enhancedScrapeWebsite(scrape.url, fetched, now)),
                       [fetched |-> fetched.k])
    /\ UNCHANGED <<firecrawl, now, notScrapeVars>>

\* handleError: the response for an error caught by an endpoint
handleError(error) ==
    IF error.name = "ValidationError" THEN [status |-> 400, error |-> error.message]
    ELSE IF Has(error, "code") /\ error.code \in {"ENOTFOUND", "ECONNREFUSED"}
    THEN [status |-> 503,
          error |-> <<"Unable to connect to external service. Please try again later.">>]
    ELSE IF Contains(error.message, <<"rate limit">>)
    THEN [status |-> 429,
          error |-> <<"Rate limit exceeded. Please wait before making another request.">>]
    ELSE [status |-> 500,
          error |-> <<"An internal server error occurred. Please try again later.">>]

\* The validation of POST /api/scrape: the message of the Error it throws,
\* or <<>> for a URL it accepts
ScrapeRejects(body) ==
    IF ~Has(body, "url") \/ Trim(body.url) = <<>> THEN <<"URL is required">>
    ELSE IF ~startsWithHttp(Trim(body.url))
    THEN <<"Please provide a valid URL (e.g., https://example.com)">>
    ELSE <<>>

\* POST /api/scrape with a URL its validation refuses: new Error(message) is
\* thrown and caught, and handleError answers
ScrapeRejected(body) ==
    /\ scrape.pc = "idle"
    /\ ScrapeRejects(body) # <<>>
    /\ scrape' = [pc |-> "idle", body |-> body,
                  resp |-> handleError([name |-> "Error", message |-> ScrapeRejects(body)])]
    /\ UNCHANGED <<firecrawl, now, notScrapeVars>>

\* POST /api/scrape once the scrape has returned: data without title, content
\* and description is refused through handleError; other data is stored in
\* scrapedWebsites (a Map nothing reads, kept here as stored) and sent
ScrapeRespond ==
    /\ scrape.pc = "done"
    /\ ~Has(scrape, "resp")
    /\ scrape' =
          IF scrape.outcome.k # "return"
          THEN Merge(scrape, [resp |-> handleError([name |-> "Error",
                                                     message |-> scrape.outcome.message])])
          ELSE LET scrapedData == scrape.outcome.value
               IN  IF /\ scrapedData.title = <<>>
                      /\ scrapedData.content = <<>>
                      /\ scrapedData.description = <<>>
                   THEN Merge(scrape,
                              [resp |-> handleError(
                                  [name |-> "Error",
                                   message |-> <<"Unable to extract meaningful data from this website.">>])])
                   ELSE Merge(scrape,
                              [stored |-> Merge(scrapedData, [url |-> scrape.url, timestamp |-> now]),
                               resp |-> Merge(scrapedData, [status |-> 200])])
    /\ UNCHANGED <<firecrawl, now, notScrapeVars>>

\* The number of keyword-matching and of other URLs a large mapping result
\* holds at most
MaxLinks == 9

\* Large mapping results: up to MaxLinks keyword-matching URLs and up to
\* MaxLinks other URLs, the ones before the others or after them, with or
\* without the homepage ahead of them (URL i of a kind has i path segments)
LongLinkLists ==
    LET urls(word, n) == [i \in 1..n |->
                             [t |-> "str", url |-> <<"h", word>> \o [j \in 1..i |-> "/x"]]]
    IN  { home \o (IF first THEN urls("about", a) \o urls("blog", b)
                   ELSE urls("blog", b) \o urls("about", a)) :
            a \in 0..MaxLinks, b \in 0..MaxLinks, first \in BOOLEAN,
            home \in {<<>>, <<[t |-> "obj", url |-> Home]>>} }
        \ {<<>>}

InitScrape ==
    /\ firecrawl \in {"client", "null"}
    /\ scrape = IdleRequest

NextScrape ==
    \/ \E url \in {Home, <<"h", "blog">>} : ScrapeStart(url)
    \/ \E body \in {EmptyObj, [url |-> <<" ">>], [url |-> <<"ftp://h">>], [url |-> <<"x", "y">>]} :
          ScrapeRejected(body)
    \/ ScrapeRespond
    \/ \E mapped \in MapOutcomes : MapReturn(mapped)
    \/ \E scraped \in ScrapeOutcomes : PageReturn(scraped)
    \/ SleepDone
    \/ \E scraped \in ScrapeOutcomes : SingleReturn(scraped)
    \/ \E fetched \in FetchOutcomes : FetchReturn(fetched)
    \/ Tick

----------------------------------------------------------------------------
(* Configuration and LLM gateway *)

\* An API key is a string; "null" stands for null and "" is the empty string,
\* the two values a test of the key takes as false
KeySet(key) == key \notin {"null", ""}

\* key || null
OrNull(key) == IF KeySet(key) THEN key ELSE "null"

\* process.env at start: GOOGLE_API_KEY set or not, NODE_ENV development or
\* not; OPENAI_API_KEY and ANTHROPIC_API_KEY are not set
Envs ==
    [GOOGLE_API_KEY : {"null", "g0"}, NODE_ENV : {"development", "production"}]

\* 'X API key not configured'
NotConfigured(provider) ==
    CASE provider \in {"default", "gemini"} -> "Gemini API key not configured"
      [] provider = "openai" -> "OpenAI API key not configured"
      [] provider = "claude" -> "Claude API key not configured"

\* The key callLLM takes for a provider
ApiKeyFor(provider) ==
    CASE provider = "default" -> env.GOOGLE_API_KEY
      [] provider = "gemini" ->
            IF KeySet(apiConfig.geminiApiKey) THEN apiConfig.geminiApiKey
            ELSE env.GOOGLE_API_KEY
      [] provider = "openai" -> apiConfig.openaiApiKey
      [] provider = "claude" -> apiConfig.claudeApiKey

\* the mutant: the request is sent without testing the key
callLLM_NoKeyTest(provider) ==
    [pc |-> "await", provider |-> provider,
     sent |-> <<[api |-> IF provider = "default" THEN "gemini" ELSE provider,
                 key |-> ApiKeyFor(provider)]>>]

\* callLLM up to its await: the provider is read from apiConfig, a missing key
\* throws, and otherwise the one request to the provider's API is sent (sent
\* is the history of the requests of this call)
callLLM(provider) ==
    IF provider \notin {"default", "gemini", "openai", "claude"}
    THEN [pc |-> "done", provider |-> provider, sent |-> <<>>,
          outcome |-> Thrown("Unknown LLM provider")]
    ELSE IF ~KeySet(ApiKeyFor(provider))
    THEN [pc |-> "done", provider |-> provider, sent |-> <<>>,
          outcome |-> Thrown(NotConfigured(provider))]
    ELSE [pc |-> "await", provider |-> provider,
          sent |-> <<[api |-> IF provider = "default" THEN "gemini" ELSE provider,
                      key |-> ApiKeyFor(provider)]>>]

CallLLM ==
    /\ llmCall.pc \in {"idle", "done"}
    /\ llmCall' = callLLM(apiConfig.llmProvider)
    /\ UNCHANGED <<env, apiConfig, admin, now, firecrawl, scrape, projVars, siteVars, genVars>>

\* The provider answers: its text is returned, its error is logged and thrown
\* again
CallLLMReturn(outcome) ==
    /\ llmCall.pc = "await"
    /\ llmCall' = Merge(llmCall, [pc |-> "done", outcome |-> outcome])
    /\ UNCHANGED <<env, apiConfig, admin, now, firecrawl, scrape, projVars, siteVars, genVars>>

\* POST /api/config/save: the fields present in the body are taken over, and
\* a firecrawlApiKey in the body makes or clears the scraping client
ConfigSave(body) ==
    /\ admin.pc \in {"idle", "done"}
    /\ IF Has(body, "llmProvider") /\ body.llmProvider # ""
          /\ body.llmProvider \notin {"default", "gemini", "openai", "claude"}
       THEN /\ admin' = [pc |-> "done", op |-> "save",
                         resp |-> [status |-> 400, error |-> "Invalid LLM provider"]]
            /\ UNCHANGED <<apiConfig, firecrawl>>
       ELSE LET taken(k) == IF Has(body, k) THEN OrNull(body[k]) ELSE apiConfig[k]
                number(k) == IF Has(body, k)
                                /\ body[k] \notin {[t |-> "int", v |-> 0], [t |-> "str", s |-> <<>>]}
                             THEN parseInt(body[k]) ELSE apiConfig[k]
                config == [llmProvider |->
                               IF Has(body, "llmProvider") /\ body.llmProvider # ""
                               THEN body.llmProvider ELSE apiConfig.llmProvider,
                           geminiApiKey |-> taken("geminiApiKey"),
                           openaiApiKey |-> taken("openaiApiKey"),
                           claudeApiKey |-> taken("claudeApiKey"),
                           firecrawlApiKey |-> taken("firecrawlApiKey"),
                           maxWebsiteTokens |-> number("maxWebsiteTokens"),
                           maxOutreachTokens |-> number("maxOutreachTokens")]
            IN  /\ apiConfig' = config
                /\ firecrawl' =
                      IF ~Has(body, "firecrawlApiKey") THEN firecrawl
                      ELSE IF KeySet(body.firecrawlApiKey)
                              /\ body.firecrawlApiKey # "fc-your_firecrawl_key_here"
                      THEN "client" ELSE "null"
                /\ admin' = [pc |-> "done", op |-> "save",
                             resp |-> [status |-> 200,
                                       config |-> [llmProvider |-> config.llmProvider,
                                                   hasGeminiKey |-> KeySet(config.geminiApiKey),
                                                   hasOpenAIKey |-> KeySet(config.openaiApiKey),
                                                   hasClaudeKey |-> KeySet(config.claudeApiKey),
                                                   hasFirecrawlKey |-> KeySet(config.firecrawlApiKey),
                                                   maxWebsiteTokens |-> config.maxWebsiteTokens,
                                                   maxOutreachTokens |-> config.maxOutreachTokens]]]
    /\ UNCHANGED <<env, llmCall, now, scrape, projVars, siteVars, genVars>>

\* POST /api/config/test up to its await: for gemini, openai and claude a
\* missing key of apiConfig is refused, and otherwise the probe is sent; any
\* other provider falls through to res.json(testResult) (probes is the
\* history of the probes sent)
ConfigTest ==
    /\ admin.pc \in {"idle", "done"}
    /\ admin' =
          LET provider == apiConfig.llmProvider
              key == CASE provider = "gemini" -> apiConfig.geminiApiKey
                       [] provider = "openai" -> apiConfig.openaiApiKey
                       [] provider = "claude" -> apiConfig.claudeApiKey
                       [] OTHER -> "null"
          IN  IF provider \notin {"gemini", "openai", "claude"}
              THEN [pc |-> "done", op |-> "test", provider |-> provider, probes |-> <<>>,
                    resp |-> [status |-> 200, success |-> FALSE, message |-> <<>>]]
              ELSE IF ~KeySet(key)
              THEN [pc |-> "done", op |-> "test", provider |-> provider, probes |-> <<>>,
                    resp |-> [status |-> 400, error |-> NotConfigured(provider)]]
              ELSE [pc |-> "probe", op |-> "test", provider |-> provider,
                    probes |-> <<[api |-> provider, key |-> key]>>]
    /\ UNCHANGED <<env, apiConfig, llmCall, now, firecrawl, scrape, projVars, siteVars, genVars>>

\* The probe is answered: the reply is reported, or the error with its message
\* (cause is the message of the error caught)
ConfigTestReturn(outcome) ==
    /\ admin.pc = "probe"
    /\ admin' =
          IF outcome.k = "throw"
          THEN Merge(admin, [pc |-> "done", cause |-> outcome.message,
                             resp |-> [status |-> 500, success |-> FALSE,
                                       message |-> <<"API test failed: ", outcome.message>>]])
          ELSE Merge(admin, [pc |-> "done",
                             resp |-> [status |-> 200, success |-> TRUE,
                                       message |-> <<admin.provider, " API working! Response: ">>
                                                   \o outcome.text]])
    /\ UNCHANGED <<env, apiConfig, llmCall, now, firecrawl, scrape, projVars, siteVars, genVars>>

\* POST /api/export-package: reading businessInfo.name of a body without
\* businessInfo throws a TypeError, createExportPackage gives the archive or
\* rejects, and the catch answers with the message of the error
ExportPackage(body, package) ==
    /\ admin.pc \in {"idle", "done"}
    /\ admin' =
          LET failed(message) == [pc |-> "done", op |-> "export", cause |-> message,
                                  resp |-> [status |-> 500, error |-> message]]
              businessName == OrDefault(body.businessInfo, "name", <<"W", "e", "b", "s", "i", "t", "e">>)
          IN  IF ~Has(body, "businessInfo")
              THEN failed("Cannot read properties of undefined (reading 'name')")
              ELSE IF package.k = "throw" THEN failed(package.message)
              ELSE [pc |-> "done", op |-> "export",
                    resp |-> [status |-> 200,
                              fileName |->
                                  [i \in 1..Len(businessName) |->
                                      IF businessName[i] \in {" ", "<", ">", "&"} THEN "_"
                                      ELSE Lower(businessName[i])]
                                  \o <<"_complete_package.zip">>]]
    /\ UNCHANGED <<env, apiConfig, llmCall, now, firecrawl, scrape, projVars, siteVars, genVars>>

InitConfig(e) ==
    /\ env = e
    /\ apiConfig = [llmProvider |-> "default", geminiApiKey |-> OrNull(e.GOOGLE_API_KEY),
                    openaiApiKey |-> "null", claudeApiKey |-> "null",
                    firecrawlApiKey |-> IF firecrawl = "client" THEN "fc-1" ELSE "null",
                    maxWebsiteTokens |-> [nan |-> FALSE, v |-> 8000],
                    maxOutreachTokens |-> [nan |-> FALSE, v |-> MaxOutreachTokens]]
    /\ llmCall = IdleRequest
    /\ admin = IdleRequest

ConfigBodies ==
    { [llmProvider |-> p] : p \in {"default", "gemini", "openai", "claude", "llama", ""} }
    \cup { [geminiApiKey |-> k] : k \in {"g1", ""} }
    \cup { [llmProvider |-> "openai", openaiApiKey |-> k] : k \in {"o1", ""} }
    \cup { [claudeApiKey |-> k] : k \in {"c1", ""} }
    \cup { [firecrawlApiKey |-> k] : k \in {"fc-1", "fc-your_firecrawl_key_here", ""} }
    \cup { [maxWebsiteTokens |-> [t |-> "int", v |-> 0],
            maxOutreachTokens |-> [t |-> "str", s |-> <<"6", "0">>]] }

\* What a provider's API answers: a text, or an error
ProviderOutcomes == {[k |-> "text", text |-> <<"Hello">>], Thrown("API quota exceeded")}

\* callLLM invocations while the configuration is being changed
NextGateway ==
    \/ CallLLM
    \/ \E o \in ProviderOutcomes : CallLLMReturn(o)
    \/ \E body \in ConfigBodies : ConfigSave(body)

NextConfig ==
    \/ \E body \in ConfigBodies : ConfigSave(body)
    \/ ConfigTest
    \/ \E o \in ProviderOutcomes : ConfigTestReturn(o)
    \/ \E body \in {EmptyObj, [businessInfo |-> EmptyObj],
                    [businessInfo |-> [name |-> <<"A", " ", "c">>], generatedWebsite |-> 1]},
          package \in {[k |-> "zip"], Thrown("archiver: write failed")} :
          ExportPackage(body, package)

\* The selection of the URLs to scrape, for large mapping results
NextSelect ==
    \/ \E url \in {Home, <<"h", "blog">>} : ScrapeStart(url)
    \/ \E links \in LongLinkLists : MapReturn([k |-> "result", links |-> links])

----------------------------------------------------------------------------
(* Specifications: one per subsystem, the others at rest *)

\* With the subsystems at rest the process runs outside development mode
\* with the built-in key set
Init ==
    /\ InitClock /\ InitProjects /\ InitSites /\ InitGen /\ InitScrape
    /\ InitConfig([GOOGLE_API_KEY |-> "g0", NODE_ENV |-> "production"])

SpecProjects == Init /\ [][NextProjects]_vars

SpecSites == Init /\ [][NextSites]_vars

SpecRecreate == Init /\ [][NextRecreate]_vars

SpecOutreach == Init /\ [][NextOutreach]_vars

\* The Project Store beside a recreate request, which writes to the same Map
NextStore ==
    \/ NextProjects
    \/ \E body \in {b \in RecreateBodies : b.versionCount.t = "absent"} : RecreateRequest(body)
    \/ \E o \in {LLMMissing}, id \in ProjectIds : RecreateLLMReturn(o, id)
    \/ \E id \in SiteIds : RecreateHosted(id)
    \/ RecreateHostFailed

SpecStore == Init /\ [][NextStore]_vars

\* The configuration and the LLM gateway, under every environment
InitAnyEnv ==
    /\ InitClock /\ InitProjects /\ InitSites /\ InitGen /\ InitScrape
    /\ \E e \in Envs : InitConfig(e)

SpecConfig == InitAnyEnv /\ [][NextConfig]_vars

SpecGateway == InitAnyEnv /\ [][NextGateway]_vars

SpecSelect == Init /\ [][NextSelect]_vars

SpecScrape == Init /\ [][NextScrape]_vars

\* Every awaited call and sleep comes to an end: the provider and the fetch
\* answer or fail, a timer fires.  This is WF_scrape(NextScrape) with
\* ENABLED <<NextScrape>>_scrape written out: a step that changes scrape is
\* possible exactly when the invocation has not ended.
FairScrape == []<>(scrape.pc = "done") \/ []<><<NextScrape>>_scrape

SpecScrapeLive == Init /\ [][NextScrape]_vars /\ FairScrape

\* A scrape request with, at any moment, a configuration save that replaces
\* the scraping client or clears it
NextReconfigure ==
    \/ NextScrape
    \/ \E body \in {[firecrawlApiKey |-> k] : k \in {"fc-1", ""}} : ConfigSave(body)

SpecReconfigure == Init /\ [][NextReconfigure]_vars /\ FairScrape

----------------------------------------------------------------------------
(* Claims about the Project Store *)

\* What get returns for a bundle, stated field by field: name and
\* businessInfo.name trimmed and without '<' '>', businessInfo.description
\* likewise and "" when absent or empty, every other field as submitted.
ExpectedStored(b) ==
    [k \in DOMAIN b \ {"id", "savedAt"} |->
        CASE k = "name" -> StripAngle(Trim(b.name))
          [] k = "businessInfo" ->
                [f \in DOMAIN b.businessInfo \cup {"description"} |->
                    CASE f = "name" -> StripAngle(Trim(b.businessInfo.name))
                      [] f = "description" ->
                            IF Has(b.businessInfo, "description")
                               /\ b.businessInfo.description # <<>>
                            THEN StripAngle(Trim(b.businessInfo.description))
                            ELSE <<>>
                      [] OTHER -> b.businessInfo[f]]
          [] OTHER -> b[k]]

SavedIds == DOMAIN submitted \ deleted

\* C13 (as claimed): the Map holds exactly the projects created by a save and
\* not deleted since, so that no operation other than save adds an entry list
\* or get can return; and a list response carries exactly those projects,
\* ordered by savedAt descending.
C13_ListExactlySaved ==
    /\ DOMAIN generatedProjects = SavedIds
    /\ projResp.op = "list" =>
          LET ps == projResp.projects
          IN  /\ \A i \in 1..Len(ps) :
                    /\ Has(ps[i], "savedAt")
                    /\ \E id \in SavedIds :
                          Without(ps[i], {"id", "savedAt"}) = ExpectedStored(submitted[id])
              /\ Len(ps) = Cardinality(SavedIds)
              /\ \A i, j \in 1..Len(ps) :
                    (i < j /\ Has(ps[i], "savedAt") /\ Has(ps[j], "savedAt")) =>
                        ps[i].savedAt >= ps[j].savedAt

\* A string that is trimmed and has no angle bracket
Sanitized(str) == Trim(str) = str /\ StripAngle(str) = str

\* C16 (as claimed): the name of every stored project, every string field of
\* its business facts, and the business name in the metadata of every hosted
\* site are stored trimmed and without any angle bracket.
C16_StoredStringsSanitized ==
    /\ \A id \in SavedIds :
          LET project == generatedProjects[id]
          IN  /\ Sanitized(project.name)
              /\ \A f \in DOMAIN project.businessInfo : Sanitized(project.businessInfo[f])
    /\ \A s \in SiteIds :
          metaFile[s].st = "json" => Sanitized(metaFile[s].data.businessName)

----------------------------------------------------------------------------
(* Claims about the Generation Pipeline *)

RecreateRan == Has(recreate, "numVersions")

\* The LLM call threw, or gave no text, or gave the empty text
LLMFailedOrEmpty(outcome) ==
    \/ outcome.k \in {"throw", "missing"}
    \/ outcome.k = "text" /\ outcome.text = <<>>

\* C7 (as claimed): every site synthesis whose LLM call threw or gave a missing
\* or empty text returned the fallback template as its html, which is
\* non-empty and contains the business name.
C7_FallbackOnEveryFailure ==
    RecreateRan =>
        \A i \in 1..Len(recreate.outcomes) :
            LET o == recreate.outcomes[i]
            IN  LLMFailedOrEmpty(o.llm) =>
                    /\ o.site.html = generateFallbackWebsite(recreate.businessInfo)
                    /\ o.site.html # <<>>
                    /\ Contains(o.site.html, recreate.businessInfo.name)

OutreachAnswered == outreach.pc = "done" /\ Has(outreach, "emailCall")

NoCallFulfilled ==
    /\ outreach.emailCall.k \in {"throw", "pending"}
    /\ outreach.proposalCall.k \in {"throw", "pending"}

\* C8: when no LLM call of an outreach generation came back with a result
\* (each one threw), the request is still answered with an email and a
\* proposal that are both non-empty and each contain the business name and the
\* sender email handed to generateOutreachWithAI.
C8_OutreachFallback ==
    (OutreachAnswered /\ NoCallFulfilled) =>
        /\ outreach.resp.status = 200
        /\ outreach.resp.email # <<>>
        /\ outreach.resp.proposal # <<>>
        /\ Contains(outreach.resp.email, outreach.businessInfo.name)
        /\ Contains(outreach.resp.email, outreach.outreachInfo.yourEmail)
        /\ Contains(outreach.resp.proposal, outreach.businessInfo.name)
        /\ Contains(outreach.resp.proposal, outreach.outreachInfo.yourEmail)

\* C8 witness: a request with a mixed-case sender address and a business name
\* that needed sanitizing is answered after both calls threw.
C8_Witness ==
    /\ OutreachAnswered
    /\ outreach.emailCall.k = "throw"
    /\ outreach.proposalCall.k = "throw"
    /\ outreach.body.yourEmail # outreach.outreachInfo.yourEmail
    /\ outreach.body.businessInfo.name # outreach.businessInfo.name
    /\ Has(outreach.resp, "error")

\* The number of versions a versionCount asks for, stated apart from the code:
\* an integer is clamped to 1..5, a string counts as the integer it starts
\* with, and anything else counts as 1.
ExpectedVersions(versionCount) ==
    CASE versionCount.t = "absent" -> 1
      [] versionCount.t = "null" -> 1
      [] versionCount.t = "int" ->
            IF versionCount.v < 1 THEN 1
            ELSE IF versionCount.v > 5 THEN 5 ELSE versionCount.v
      [] versionCount.t = "str" ->
            CASE versionCount.s = <<"7">> -> 5
              [] versionCount.s = <<"2">> -> 2
              [] versionCount.s = <<"3", "x">> -> 3
              [] versionCount.s = <<" ", "1", "2">> -> 5
              [] OTHER -> 1

SomeSynthesisSucceeded ==
    \E i \in 1..Len(recreate.outcomes) : Truthy(recreate.outcomes[i].site)

NoVersionsFailure ==
    /\ recreate.resp.status = 500
    /\ recreate.resp.error = "Failed to generate any website versions"

\* C10: a finished recreate batch is answered with success whenever at least
\* one site-synthesis call returned a site, and with the failure "failed to
\* generate any website versions" only when none of its calls did.
C10_BatchSucceedsOnAnyVersion ==
    (RecreateRan /\ recreate.pc = "done") =>
        /\ SomeSynthesisSucceeded => recreate.resp.status = 200
        /\ NoVersionsFailure => ~SomeSynthesisSucceeded

\* C10 witness: a batch of several versions, one of them from the LLM and one
\* from the fallback template after an LLM error, is answered with success.
C10_Witness ==
    /\ RecreateRan
    /\ recreate.pc = "done"
    /\ recreate.numVersions > 1
    /\ recreate.resp.status = 200
    /\ \E i \in 1..Len(recreate.outcomes) : Has(recreate.outcomes[i].site, "error")
    /\ \E i \in 1..Len(recreate.outcomes) : ~Has(recreate.outcomes[i].site, "error")

\* An LLM call that threw the provider's quota error
QuotaError(outcome) == outcome = Thrown("API quota exceeded")

\* C12 (as claimed): a recreate or outreach request during which an LLM call
\* was answered with a rate-limit or quota error is answered with the
\* try-again-later category (status 429) carrying a retry delay.
C12_QuotaPropagates ==
    /\ (OutreachAnswered /\ (QuotaError(outreach.emailCall) \/ QuotaError(outreach.proposalCall))) =>
          (outreach.resp.status = 429 /\ Has(outreach.resp, "retryAfter"))
    /\ (RecreateRan /\ recreate.pc = "done"
          /\ \E i \in 1..Len(recreate.outcomes) : QuotaError(recreate.outcomes[i].llm)) =>
          (recreate.resp.status = 429 /\ Has(recreate.resp, "retryAfter"))

----------------------------------------------------------------------------
(* Claims about the Scrape Orchestrator *)

ScrapeDone == scrape.pc = "done"

ScrapeOps == [i \in 1..Len(scrape.log) |-> scrape.log[i].op]

Issued(op) == \E i \in 1..Len(scrape.log) : scrape.log[i].op = op

\* The invocation ended by handing its caller a result object
ScrapeReturned ==
    /\ scrape.outcome.k = "return"
    /\ Has(scrape.outcome.value, "metadata")
    /\ Has(scrape.outcome.value, "businessInfo")

\* C1: whatever the provider's map and scrape calls and the direct fetch do
\* (content, nothing, an error, a rate-limit error), an invocation of the
\* orchestrator, entered at professionalScrapeWebsite or at
\* enhancedScrapeWebsite, comes to its end, and it ends by returning a result
\* object, never by raising.
C1_TerminatesWithResult == (scrape.pc # "idle") ~> (ScrapeDone /\ ScrapeReturned)

\* C1 witness: an invocation whose map call gave links, whose page scrapes all
\* failed, one of them rate-limited, and whose direct fetch failed too, has
\* returned the error-fallback object.
C1_Witness ==
    /\ ScrapeDone
    /\ scrape.outcome.k = "return"
    /\ Has(scrape, "urlsToScrape")
    /\ Len(scrape.urlsToScrape) > 1
    /\ scrape.clock >= RateLimitSleep
    /\ scrape.outcome.value.metadata.method = "fallback"

\* C4 (as claimed): every returned ScrapedSite has metadata.hasContactInfo, and
\* it equals (businessInfo.email present or businessInfo.phone present).
C4_HasContactInfoEverywhere ==
    (ScrapeDone /\ scrape.outcome.k = "return") =>
        LET r == scrape.outcome.value
        IN  /\ Has(r.metadata, "hasContactInfo")
            /\ r.metadata.hasContactInfo
                   = (Has(r.businessInfo, "email") \/ Has(r.businessInfo, "phone"))

\* The map call gave at least one link and no page of the sitemap stage was
\* scraped
AllPagesFailed ==
    /\ Has(scrape, "urlsToScrape")
    /\ scrape.scrapedPages = <<>>

\* C5 (as claimed): when the map call gave links and every page scrape of the
\* sitemap stage failed, the result's method is the enhanced-fallback one.
C5_AllPagesFailedEnhanced ==
    (ScrapeDone /\ AllPagesFailed) =>
        /\ ScrapeReturned
        /\ scrape.outcome.value.metadata.method = "enhanced"

\* C5 (amended): when the map call gave links and every page scrape of the
\* sitemap stage failed, the orchestrator goes to the direct fetch without a
\* single-page scrape and returns a result object whose method is the
\* enhanced-fallback one if the fetch succeeded and the error-fallback one,
\* with the error message, if the fetch failed.
C5_AllPagesFailedEnhancedOrError ==
    (ScrapeDone /\ AllPagesFailed) =>
        /\ ScrapeReturned
        /\ ~Issued("single")
        /\ Issued("fetch")
        /\ IF scrape.fetched = "html"
           THEN scrape.outcome.value.metadata.method = "enhanced"
           ELSE /\ scrape.outcome.value.metadata.method = "fallback"
                /\ Has(scrape.outcome.value.metadata, "error")

\* C5 witness: several pages were tried, all failed, and the fetch succeeded.
C5_Witness ==
    /\ ScrapeDone
    /\ AllPagesFailed
    /\ Len(scrape.urlsToScrape) > 1
    /\ scrape.fetched = "html"
    /\ scrape.outcome.value.metadata.method = "enhanced"

\* The map call gave no result, no links or an error
MapGaveNoLinks ==
    /\ scrape.entry = "professionalScrapeWebsite"
    /\ ~Has(scrape, "urlsToScrape")

\* C6 (as claimed): when the map call gives no links the orchestrator does not
\* raise, the single-page scrape is issued before any direct fetch, and when
\* that scrape returned content (no fetch was needed) the result's method is
\* the single-page one.
C6_NoLinksSinglePage ==
    (ScrapeDone /\ MapGaveNoLinks) =>
        /\ ScrapeReturned
        /\ Len(ScrapeOps) >= 2
        /\ ScrapeOps[2] = "single"
        /\ ~Issued("fetch") => scrape.outcome.value.metadata.method = "firecrawl-single"

\* C11 (as claimed): a scrape request whose URL is missing, blank or not a valid
\* http/https URL, or whose scrape gave no title, content or description, is
\* answered with a validation error (status 400) that carries the message
\* naming the problem, not with the generic internal-error response.
C11_ValidationErrorsStructured ==
    (Has(scrape, "resp") /\ scrape.resp.status # 200) =>
        /\ scrape.resp.status = 400
        /\ scrape.pc = "idle" => scrape.resp.error = ScrapeRejects(scrape.body)

\* No two entries of the sequence are equal
NoDuplicates(list) == \A i, j \in 1..Len(list) : list[i] = list[j] => i = j

\* C15 (as claimed): the result of every strategy has links without
\* duplicates, at most 15 of them, and images without two entries of the same
\* URL, at most 100 of them.
C15_LinksAndImagesCapped ==
    (ScrapeDone /\ ScrapeReturned) =>
        LET result == scrape.outcome.value
        IN  /\ NoDuplicates(result.links)
            /\ Len(result.links) <= LinkCap
            /\ NoDuplicates([i \in 1..Len(result.images) |-> result.images[i].url])
            /\ Len(result.images) <= ImageCap

\* The place of a provider or fetch call in the order of the strategies:
\* the sitemap stage (map, then page scrapes), single-page, enhanced fallback
StrategyRank(op) ==
    CASE op \in {"map", "scrape"} -> 1
      [] op = "single" -> 2
      [] op = "fetch" -> 3

\* C20: within one invocation the calls are issued strategy by strategy in the
\* order sitemap, single-page, enhanced, never back; the map call, the
\* single-page scrape and the direct fetch are issued at most once each and the
\* map call first; and once the loop over the pages is left with no page
\* scraped the invocation is in the enhanced fallback, no single-page scrape
\* having been issued.
C20_StrategiesOnlyForward ==
    Has(scrape, "log") =>
        LET ops == ScrapeOps
            count(op) == Cardinality({i \in 1..Len(ops) : ops[i] = op})
        IN  /\ \A i, j \in 1..Len(ops) : i < j => StrategyRank(ops[i]) <= StrategyRank(ops[j])
            /\ count("map") <= 1
            /\ count("single") <= 1
            /\ count("fetch") <= 1
            /\ \A i \in 1..Len(ops) : ops[i] = "map" => i = 1
            /\ Issued("scrape") => ~Issued("single")
            /\ (Has(scrape, "scrapedPages") /\ scrape.scrapedPages = <<>>
                  /\ scrape.pc \notin {"page", "sleep"}) =>
                    /\ ops[Len(ops)] = "fetch"
                    /\ ops[Len(ops) - 1] = "scrape"

\* C20 witness: the map gave links, several pages were requested and none was
\* scraped, and the invocation ended after the direct fetch with no
\* single-page scrape.
C20_Witness ==
    /\ ScrapeDone
    /\ Len(scrape.log) >= 4
    /\ ScrapeOps[1] = "map"
    /\ ScrapeOps[2] = "scrape"
    /\ ScrapeOps[Len(scrape.log)] = "fetch"
    /\ scrape.scrapedPages = <<>>
    /\ ~Issued("single")

\* The page-scrape requests issued so far, in the order of their issue
PageRequests == SelectSeq(scrape.log, LAMBDA e : e.op = "scrape")

\* The sitemap stage has been entered
InSitemapStage == Has(scrape, "urlsToScrape")

\* C21: in the sitemap stage the page-scrape requests issued so far are the
\* first URLs of the selected list, each once and in list order; a request is
\* issued only when the one before it has been answered (one request per turn
\* of the loop); and when the loop is left every URL of the list has been
\* requested, whatever errors, rate limits among them, the requests met.
C21_EveryUrlOnceInOrder ==
    InSitemapStage =>
        /\ Len(PageRequests) <= Len(scrape.urlsToScrape)
        /\ \A i \in 1..Len(PageRequests) : PageRequests[i].url = scrape.urlsToScrape[i]
        /\ scrape.pc \in {"page", "sleep"} => Len(PageRequests) = scrape.i + 1
        /\ scrape.pc \notin {"page", "sleep"} => Len(PageRequests) = Len(scrape.urlsToScrape)

\* C21 witness: three URLs were selected, all three were requested, a rate
\* limit was met on the way and fewer than three pages were scraped.
C21_Witness ==
    /\ ScrapeDone
    /\ InSitemapStage
    /\ Len(scrape.urlsToScrape) = 3
    /\ Len(PageRequests) = 3
    /\ scrape.clock >= RateLimitSleep
    /\ Len(scrape.scrapedPages) \in {1, 2}

\* C22 (as claimed): at least 6 time units pass between two consecutive
\* page-scrape requests of a sitemap stage, and no 6-unit sleep follows the
\* request of the last URL.
C22_PacedRequests ==
    InSitemapStage =>
        /\ \A i \in 1..(Len(PageRequests) - 1) :
              PageRequests[i + 1].at - PageRequests[i].at >= PaceSleep
        /\ (scrape.pc \notin {"page", "sleep"} /\ PageRequests # <<>>) =>
              scrape.clock - PageRequests[Len(PageRequests)].at # PaceSleep

\* C23: whenever the mapping call gave at least one link, the list of the URLs
\* to scrape has no duplicates, has at most 8 entries, and starts with the
\* URL the invocation was given, whether the mapping call discovered it or not.
C23_SelectedUrls ==
    InSitemapStage =>
        /\ NoDuplicates(scrape.urlsToScrape)
        /\ Len(scrape.urlsToScrape) <= 8
        /\ scrape.urlsToScrape # <<>>
        /\ scrape.urlsToScrape[1] = scrape.url

\* C23 witness: a mapping result of more than 8 links, without the homepage,
\* has led to a list of 8 URLs.
C23_Witness ==
    /\ InSitemapStage
    /\ Len(scrape.links) > 8
    /\ \A i \in 1..Len(scrape.links) : scrape.links[i].url # scrape.url
    /\ Len(scrape.urlsToScrape) = 8

\* The concatenation the selection starts from: the homepage, the first 12
\* keyword-matching URLs, the first 8 discovered URLs
Candidates(url, links) ==
    <<url>> \o LinkUrls(Take(SelectSeq(links, IsPriority), 12)) \o LinkUrls(Take(links, 8))

Range(list) == {list[i] : i \in 1..Len(list)}

\* Of a selection: some keyword-matching URL of the mapping result is left out
KeywordLeftOut(selected, links) ==
    \E i \in 1..Len(links) : IsPriority(links[i]) /\ links[i].url \notin Range(selected)

\* Of a selection: one of its URLs is neither the homepage nor keyword-matching
HoldsOther(selected, url, links) ==
    \E u \in Range(selected) :
        u # url /\ ~\E i \in 1..Len(links) : IsPriority(links[i]) /\ links[i].url = u

\* The cut to 8 comes after the removal of duplicates: the selection holds 8
\* of the distinct candidates, or all of them when they are fewer
CutAfterDedupe ==
    InSitemapStage =>
        LET distinct == Range(Candidates(scrape.url, scrape.links))
        IN  /\ Range(scrape.urlsToScrape) \subseteq distinct
            /\ Len(scrape.urlsToScrape) = Min(8, Cardinality(distinct))

SitemapReturned ==
    /\ ScrapeDone
    /\ ScrapeReturned
    /\ scrape.outcome.value.metadata.method = "firecrawl-sitemap-comprehensive"

\* The scraped pages, in scrape order, on which the field was found
PagesWith(field) ==
    {i \in 1..Len(scrape.scrapedPages) :
        Has(extractBusinessInfo(scrape.scrapedPages[i].markdown), field)}

\* C25: in the result of the sitemap stage each of email, phone and address
\* has the value extracted from the last scraped page on which it was found,
\* and is absent exactly when no scraped page yielded it.
C25_LastPageWins ==
    SitemapReturned =>
        \A field \in {"email", "phone", "address"} :
            LET businessInfo == scrape.outcome.value.businessInfo
                last == CHOOSE i \in PagesWith(field) : \A j \in PagesWith(field) : j <= i
            IN  IF PagesWith(field) = {} THEN ~Has(businessInfo, field)
                ELSE /\ Has(businessInfo, field)
                     /\ businessInfo[field] =
                           extractBusinessInfo(scrape.scrapedPages[last].markdown)[field]

\* C25 witness: two pages gave different emails, the second one's is in the
\* result, with the phone only the first page had and the address only the
\* second had.
C25_Witness ==
    /\ SitemapReturned
    /\ Len(scrape.scrapedPages) = 2
    /\ PagesWith("email") = {1, 2}
    /\ PagesWith("phone") = {1}
    /\ PagesWith("address") = {2}
    /\ extractBusinessInfo(scrape.scrapedPages[1].markdown).email
          # scrape.outcome.value.businessInfo.email

\* C28 (as claimed): every project held in generatedProjects has a name of
\* between 3 and 50 characters.
C28_StoredNameInRange ==
    \A id \in DOMAIN generatedProjects :
        /\ Has(generatedProjects[id], "name")
        /\ Len(generatedProjects[id].name) >= MinProjectName
        /\ Len(generatedProjects[id].name) <= MaxProjectName

\* C29 (as claimed): the id field of every project stored by a save is the
\* identifier returned to the caller, the key under which get and delete find
\* the project, whatever fields the submitted bundle carries.
C29_StoredIdIsKey ==
    \A id \in SavedIds : generatedProjects[id].id = id

\* C30: whenever configuration saves replace or clear the scraping client,
\* before or during a scrape request, the request ends, it ends with a
\* result object and never with an error, and it is answered with that
\* result.
C30_ScrapeSurvivesReconfiguration ==
    /\ [](scrape.pc = "done" =>
            /\ scrape.outcome.k = "return"
            /\ Has(scrape, "resp") => scrape.resp.status = 200)
    /\ (scrape.pc \notin {"idle", "done"}) ~> (scrape.pc = "done")

\* C30 witness: a request that entered professionalScrapeWebsite has ended
\* with the result of enhancedScrapeWebsite while the client is null, and
\* after the mapping call it sent no request to the scraping provider: the
\* client was cleared while the request was in flight.
C30_Witness ==
    /\ scrape.pc = "done"
    /\ scrape.entry = "professionalScrapeWebsite"
    /\ firecrawl = "null"
    /\ Len(scrape.log) = 2
    /\ scrape.log[1].op = "map"
    /\ scrape.log[2].op = "fetch"
    /\ scrape.outcome.k = "return"
    /\ scrape.outcome.value.metadata.method = "enhanced"

\* C26 (as claimed): an outreach request that has been answered has both of
\* its callLLM calls resolved: neither the email call nor the proposal call is
\* still pending when the result is returned.
C26_AnsweredAfterBothResolved ==
    OutreachAnswered =>
        /\ outreach.emailCall # LLMPending
        /\ outreach.proposalCall # LLMPending

\* C27 (as claimed): of the outreach token budget T read at the request, the
\* email prompt is given one third and the proposal prompt two thirds, so that
\* the two budgets sum to T.
C27_BudgetsSumToTotal ==
    Has(outreach, "maxOutreachTokens") =>
        /\ 3 * outreach.emailMaxTokens = outreach.maxOutreachTokens
        /\ 3 * outreach.proposalMaxTokens = 2 * outreach.maxOutreachTokens
        /\ outreach.emailMaxTokens + outreach.proposalMaxTokens
              = outreach.maxOutreachTokens

----------------------------------------------------------------------------
(* Claims about the Configuration and the LLM gateway *)

\* C17 (as claimed): outside development mode, an error response of the config
\* test or of the export carries neither the message of the error that caused
\* it nor a details field.
C17_NoInternalDetail ==
    (env.NODE_ENV # "development" /\ admin.pc = "done" /\ Has(admin, "cause")) =>
        /\ ~Has(admin.resp, "details")
        /\ Has(admin.resp, "error") => admin.resp.error # admin.cause
        /\ Has(admin.resp, "message") =>
              \A i \in 1..Len(admin.resp.message) : admin.resp.message[i] # admin.cause

\* The selected provider has no credential: the built-in provider reads the
\* key of the environment, gemini its configured key and else that of the
\* environment, openai and claude their configured keys
CredentialMissing ==
    LET missing(key) == key = "null" \/ key = ""
    IN  CASE apiConfig.llmProvider = "default" -> missing(env.GOOGLE_API_KEY)
          [] apiConfig.llmProvider = "gemini" ->
                missing(apiConfig.geminiApiKey) /\ missing(env.GOOGLE_API_KEY)
          [] apiConfig.llmProvider = "openai" -> missing(apiConfig.openaiApiKey)
          [] apiConfig.llmProvider = "claude" -> missing(apiConfig.claudeApiKey)

\* C18: whatever provider is selected, a callLLM that starts while the
\* credential of that provider is missing ends at once with the error that the
\* key is not configured and has sent no request to a provider; and no callLLM
\* ever sends more than one request.
C18_ConfigErrorBeforeNetwork ==
    [][/\ (llmCall.pc \in {"idle", "done"} /\ llmCall' # llmCall /\ CredentialMissing) =>
            /\ llmCall'.pc = "done"
            /\ llmCall'.outcome.k = "throw"
            /\ llmCall'.outcome.message \in {"Gemini API key not configured",
                                             "OpenAI API key not configured",
                                             "Claude API key not configured"}
            /\ llmCall'.sent = <<>>
       /\ Has(llmCall', "sent") => Len(llmCall'.sent) <= 1]_vars

\* C18 witness: with openai selected and no OpenAI key, a call has ended with
\* the configuration error and nothing sent.
C18_Witness ==
    /\ llmCall.pc = "done"
    /\ llmCall.provider = "openai"
    /\ apiConfig.llmProvider = "openai"
    /\ apiConfig.openaiApiKey = "null"
    /\ llmCall.outcome = Thrown("OpenAI API key not configured")
    /\ llmCall.sent = <<>>

\* C19 (as claimed): a config test answered while the selected provider's
\* credential is present has sent a probe to that provider.
C19_TestProbesSelected ==
    (admin.pc = "done" /\ Has(admin, "probes") /\ ~CredentialMissing) =>
        /\ Len(admin.probes) = 1
        /\ admin.probes[1].api = (IF admin.provider = "default" THEN "gemini" ELSE admin.provider)

----------------------------------------------------------------------------
(* Claims about the Site Publisher *)

ViewsOf(siteId) == { v \in Viewers : view[v].pc # "idle" /\ view[v].site = siteId }

\* C2: once every view of the site published at the start has completed,
\* each having been served the page, the stored viewCount is the number of
\* these views: no increment is lost.
C2_NoLostIncrement ==
    (\A v \in ViewsOf(1) : view[v].pc = "done" /\ view[v].status = 200)
        => /\ metaFile[1].st = "json"
           /\ metaFile[1].data.viewCount = Cardinality(ViewsOf(1))

\* C14 (as claimed): the viewCount stored for a site never decreases: whenever
\* the fs.writeFile of a view replaces a meta.json that holds a viewCount, the
\* viewCount it writes is greater than or equal to the one it replaces,
\* whatever the interleaving of the views.
C14_ViewCountNeverDecreases ==
    [][\A v \in Viewers :
          (/\ view[v].pc = "write"
           /\ view'[v].pc = "writing"
           /\ metaFile[view[v].site].st = "json")
              => view[v].metadata.viewCount >= metaFile[view[v].site].data.viewCount]_vars

====
